---- MODULE Spec2Model ----
(***************************************************************************)
(* Model of src/ontology/transform_mismo_xsd.py: the MISMO XSD to Turtle   *)
(* transformer (class MISMOXSDTransformer) and its command line (main).    *)
(*                                                                         *)
(* A schema document is the sequence of its simpleType / complexType       *)
(* declarations in document order.  A declaration carries the structural   *)
(* facts the code reads with find()/findall(): its name, xsd:any, the      *)
(* simpleContent extension, the elements of its sequence, its attributes,  *)
(* and for simple types the union and the restriction with its facets.     *)
(* A Turtle statement is a record of the parts the code formats into the   *)
(* statement's text.                                                       *)
(***************************************************************************)
EXTENDS Integers, Sequences, FiniteSets

VARIABLES
    schema,                 \* the parsed document: declarations in document order
    disable_pattern_007,    \* MISMOXSDTransformer.disable_pattern_007
    pc,                     \* position of main / transform_xsd
    idx,                    \* position of the loop over transformable_elements
    complex_type_info,      \* registry: sequence of entries in dict insertion order
    hierarchy_data,         \* sequence of [parent, contained] in dict insertion order
    transformed_types,      \* set of names
    ttl_statements,         \* the statement list
    pending_hierarchies,    \* list of <<collection, element>> pairs
    calls,                  \* log of transform_element_new invocations
    input_exists,           \* os.path.exists(args.input): "unset", "True" or "False"
    transform_xsd_result,   \* what transform_xsd returned: "unset", "True" or "False"
    write_ttl_result,       \* what write_ttl returned: "unset", "True" or "False"
    exit_code,              \* process exit status, -1 while the process runs
    run_no,                 \* which run of the command line this is: 1 or 2
    first_run,              \* the document and the output of the first run
    main_xsd,               \* XSDTransformer: the root schema (directives, parsable)
    skip_import,            \* XSDTransformer.skip_import
    readable_files,         \* XSDTransformer: the import paths ET.parse can read
    run_pc,                 \* XSDTransformer: position of run
    directive,              \* XSDTransformer: position in the import/include loops
    processed_files,        \* XSDTransformer: the set process_imports keeps
    delegated,              \* XSDTransformer: log of the delegated emitters' runs
    g,                      \* XSDTransformer.g: whose triples the graph holds
    failure,                \* XSDTransformer: what raised out of run, "none" if nothing
    output_written,         \* XSDTransformer: whether the Turtle file was written
    comment_arg,            \* _format_comment_for_ttl: its argument comment
    formatted,              \* _format_comment_for_ttl: what it returned
    upload_args,            \* VirtuosoUploader.upload: ttl file there, method, verify
    upload_pc,              \* VirtuosoUploader.upload: position
    upload_polls,           \* VirtuosoUploader.wait_for_virtuoso: requests made
    upload_log,             \* VirtuosoUploader.upload: what it did, in order
    success,                \* VirtuosoUploader.upload: its local success
    upload_result           \* VirtuosoUploader.upload: what it returned

vars == <<schema, disable_pattern_007, pc, idx, complex_type_info, hierarchy_data,
          transformed_types, ttl_statements, pending_hierarchies, calls,
          input_exists, transform_xsd_result, write_ttl_result, exit_code,
          run_no, first_run, main_xsd, skip_import, readable_files,
          run_pc, directive, processed_files, delegated, g, failure, output_written,
          comment_arg, formatted,
          upload_args, upload_pc, upload_polls, upload_log, success, upload_result>>

\* the variables of one call of _format_comment_for_ttl
commentVars == <<comment_arg, formatted>>

\* the variables of VirtuosoUploader.upload (src/upload_pipeline.py)
uploadVars == <<upload_args, upload_pc, upload_polls, upload_log, success, upload_result>>

\* the variables of the second run of the command line
secondRunVars == <<run_no, first_run>>

\* the variables of XSDTransformer (src/ontology/transform.py)
importVars == <<main_xsd, skip_import, readable_files, run_pc, directive,
                processed_files, delegated, g, failure, output_written>>

\* Largest number of type declarations in a schema document.
MaxTypes == 2

(***************************************************************************)
(* Strings.  TLC has no string operations, so every str method the code    *)
(* applies is given by its value on the names that occur in the schemas    *)
(* of this model.                                                          *)
(***************************************************************************)

\* name.endswith('EXTENSION')
EndsWithEXTENSION(s) == s \in {"EXTENSION", "LOAN_EXTENSION"}

\* elem_type.endswith('_EXTENSION')
EndsWithUnderscoreEXTENSION(s) == s \in {"LOAN_EXTENSION"}

\* elem_type.endswith('_BASE')
EndsWithBASE(s) == s \in {"MISMO_BASE", "OTHER_BASE"}

\* processed_type.endswith('S')
EndsWithS(s) == s \in {"BORROWERS"}

\* processed_type[:-1]
DropLast(s) == IF s = "BORROWERS" THEN "BORROWER" ELSE s

\* ':' in type_name
HasColon(s) == s \in {"xsd:string", "xsd:decimal"}

\* type_name.startswith('xsd:')
StartsWithXsd(s) == s \in {"xsd:string", "xsd:decimal"}

\* elem_name[0].lower() + elem_name[1:]
LowerFirst(s) ==
    CASE s = "BORROWER" -> "bORROWER"
      [] s = "BORROWERS" -> "bORROWERS"
      [] s = "ITEM" -> "iTEM"
      [] s = "EXTENSION" -> "eXTENSION"
      [] s = "MISMO" -> "mISMO"
      [] s = "OTHER" -> "oTHER"
      [] s = "SequenceNumber" -> "sequenceNumber"
      [] OTHER -> s

\* to_camel_case: split on '_', lower the first word, capitalize the others
to_camel_case(s) ==
    CASE s = "SequenceNumber" -> "sequencenumber"
      [] s = "BORROWER" -> "borrower"
      [] s = "ITEM" -> "item"
      [] OTHER -> s

\* elem_name.title() if elem_name.isupper() else elem_name
TitleIfUpper(s) ==
    CASE s = "BORROWER" -> "Borrower"
      [] s = "BORROWERS" -> "Borrowers"
      [] s = "ITEM" -> "Item"
      [] s = "EXTENSION" -> "Extension"
      [] s = "MISMO" -> "Mismo"
      [] s = "OTHER" -> "Other"
      [] OTHER -> s

\* str.lower() of an element or attribute name, '_' replaced by ' ' where asked
Lower(s) ==
    CASE s = "BORROWER" -> "borrower"
      [] s = "BORROWERS" -> "borrowers"
      [] s = "ITEM" -> "item"
      [] s = "EXTENSION" -> "extension"
      [] s = "MISMO" -> "mismo"
      [] s = "OTHER" -> "other"
      [] s = "SequenceNumber" -> "sequencenumber"
      [] OTHER -> s

(***************************************************************************)
(* Schema declarations.                                                    *)
(***************************************************************************)

\* <xsd:element name= type= maxOccurs=>; "" is an absent attribute
Elem(n, t, m) == [name |-> n, type |-> t, maxOccurs |-> m]

\* <xsd:attribute name= type=>
Attr(n, t) == [name |-> n, type |-> t]

NoAny == "none"

\* <xsd:complexType name=n>: any is NoAny or the namespace attribute of its
\* xsd:any ("" when the attribute is absent); sc says whether it has a
\* simpleContent/extension, whose base is ext_base
ComplexType(n, any, sc, ext_base, seq, attrs) ==
    [tag |-> "complexType", name |-> n, any |-> any, simpleContent |-> sc,
     base |-> ext_base, sequence |-> seq, attributes |-> attrs,
     union |-> "none", restriction |-> FALSE, maxLength |-> FALSE,
     enumeration |-> << >>]

\* <xsd:simpleType name=n>: union is "none", "memberTypes" (a union with the
\* attribute) or "empty" (a union without it); restr says whether it has a
\* restriction, whose base is restr_base and whose facets are maxLength and
\* the enumeration values
SimpleType(n, union, restr, restr_base, maxlen, enums) ==
    [tag |-> "simpleType", name |-> n, any |-> NoAny, simpleContent |-> FALSE,
     base |-> restr_base, sequence |-> << >>, attributes |-> << >>,
     union |-> union, restriction |-> restr, maxLength |-> maxlen,
     enumeration |-> enums]

\* memberTypes of every union of the model
UnionMemberTypes == <<"xsd:string", "BORROWER">>

\* len(element): the number of child nodes; bool(element) in Python is len != 0
NumChildren(e) ==
    (IF e.any # NoAny \/ Len(e.sequence) > 0 THEN 1 ELSE 0)
    + (IF e.simpleContent THEN 1 ELSE 0)
    + (IF e.simpleContent THEN 0 ELSE Len(e.attributes))
    + (IF e.union # "none" THEN 1 ELSE 0)
    + (IF e.restriction THEN 1 ELSE 0)

Truthy(e) == NumChildren(e) > 0

(***************************************************************************)
(* Generic helpers on sequences.                                           *)
(***************************************************************************)

Range(s) == {s[i] : i \in 1..Len(s)}

\* the sequences over S of length 1..n
SeqsUpTo(S, n) == UNION {[1..k -> S] : k \in 1..n}

RECURSIVE Flatten(_)
\* concatenation of a sequence of sequences
Flatten(ss) == IF Len(ss) = 0 THEN << >> ELSE Head(ss) \o Flatten(Tail(ss))

RECURSIVE Dedupe(_)
\* a sequence without its repeated members, first occurrences kept in order
Dedupe(s) ==
    IF Len(s) = 0 THEN << >>
    ELSE LET front == Dedupe(SubSeq(s, 1, Len(s) - 1))
             last == s[Len(s)]
         IN IF last \in Range(front) THEN front ELSE Append(front, last)

(***************************************************************************)
(* The type registry and the containment data (steps 1 and 2).             *)
(***************************************************************************)

IsComplex(e) == e.tag = "complexType"
IsSimple(e) == e.tag = "simpleType"

\* analyze_xsd_structure: complex_type_info is a dict keyed by type name; all
\* named complexTypes are entered first, then all named simpleTypes, and a
\* later entry of the same name replaces the value and keeps the key's place
analyze_xsd_structure(doc) ==
    LET complex == SelectSeq(doc, LAMBDA e : IsComplex(e) /\ e.name # "")
        simple == SelectSeq(doc, LAMBDA e : IsSimple(e) /\ e.name # "")
        all == complex \o simple
        keys == Dedupe([i \in 1..Len(all) |-> all[i].name])
        lastOf(n) == all[CHOOSE i \in 1..Len(all) :
                            /\ all[i].name = n
                            /\ \A j \in (i + 1)..Len(all) : all[j].name # n]
    IN [i \in 1..Len(keys) |->
            [name |-> keys[i],
             is_owl_class |-> IsComplex(lastOf(keys[i])),
             element |-> lastOf(keys[i])]]

\* type_name in self.complex_type_info
InRegistry(t) == \E i \in 1..Len(complex_type_info) : complex_type_info[i].name = t

\* self.complex_type_info[type_name]
InfoOf(t) ==
    complex_type_info[CHOOSE i \in 1..Len(complex_type_info) :
                          complex_type_info[i].name = t]

\* the contained_types list build_hierarchy_data computes for one registry
\* entry from its registry and its element's sequence
ContainedTypes(info, e) ==
    LET isClass(t) == \E i \in 1..Len(info) : info[i].name = t /\ info[i].is_owl_class
        kept == SelectSeq(e.sequence,
                          LAMBDA el : el.name # "" /\ el.type # "" /\ isClass(el.type))
    IN [i \in 1..Len(kept) |->
            [name |-> kept[i].name, type |-> kept[i].type,
             max_occurs |-> IF kept[i].maxOccurs = "" THEN "1" ELSE kept[i].maxOccurs]]

\* build_hierarchy_data: one entry per complex registry type that contains
\* an element of a complex registry type, in registry order
build_hierarchy_data(info) ==
    LET parents == SelectSeq(info, LAMBDA t :
                        t.is_owl_class /\ Len(ContainedTypes(info, t.element)) > 0)
    IN [i \in 1..Len(parents) |->
            [parent |-> parents[i].name,
             contained |-> ContainedTypes(info, parents[i].element)]]

\* name in self.hierarchy_data
InHierarchy(n) == \E i \in 1..Len(hierarchy_data) : hierarchy_data[i].parent = n

\* self.hierarchy_data[name]
ContainedOf(n) ==
    hierarchy_data[CHOOSE i \in 1..Len(hierarchy_data) :
                       hierarchy_data[i].parent = n].contained

\* A parent lookup that matches a contained entry by its element name only.
get_parent_types_by_name(element_name) ==
    LET hits == SelectSeq(hierarchy_data, LAMBDA h :
                    \E i \in 1..Len(h.contained) : h.contained[i].name = element_name)
    IN [i \in 1..Len(hits) |-> hits[i].parent]

\* get_parent_types: the parents with a contained entry whose element name or
\* type is element_name, each once, in hierarchy_data order
get_parent_types(element_name) ==
    LET hits == SelectSeq(hierarchy_data, LAMBDA h :
                    \E i \in 1..Len(h.contained) :
                        \/ h.contained[i].name = element_name
                        \/ h.contained[i].type = element_name)
    IN [i \in 1..Len(hits) |-> hits[i].parent]

\* _determine_collection_parents: by element name, else by type
_determine_collection_parents(collection_name) ==
    LET hits == SelectSeq(hierarchy_data, LAMBDA h :
                    \E i \in 1..Len(h.contained) :
                        \/ h.contained[i].name = collection_name
                        \/ /\ h.contained[i].type # ""
                           /\ h.contained[i].type = collection_name)
    IN [i \in 1..Len(hits) |-> hits[i].parent]

\* what _find_root_container returns when it finds no root
None == "None"

\* the minimum number of contained types _find_root_container asks of a root
RootContainerThreshold == 5

\* _find_root_container: of the types with more than five contained types
\* the one with the most, the first in hierarchy_data order among equals.
\* No emitter calls it.
_find_root_container ==
    LET potential_roots == {i \in 1..Len(hierarchy_data) :
                               Len(hierarchy_data[i].contained) > RootContainerThreshold}
    IN IF potential_roots = {} THEN None
       ELSE hierarchy_data[CHOOSE i \in potential_roots :
                \A j \in potential_roots :
                    \/ Len(hierarchy_data[j].contained) < Len(hierarchy_data[i].contained)
                    \/ /\ Len(hierarchy_data[j].contained) = Len(hierarchy_data[i].contained)
                       /\ i <= j].parent

(***************************************************************************)
(* The pattern classifier.                                                 *)
(***************************************************************************)

\* isPattern003: the type has an xsd:any
isPattern003(e) == e.any # NoAny

\* isPattern004: the type has a simpleContent
isPattern004(e) == e.simpleContent

\* _is_extension_pattern: the name ends in EXTENSION, or a complexType whose
\* sequence has exactly two elements, named MISMO and OTHER
_is_extension_pattern(e) ==
    \/ EndsWithEXTENSION(e.name)
    \/ /\ IsComplex(e)
       /\ Len(e.sequence) = 2
       /\ {e.sequence[i].name : i \in 1..Len(e.sequence)} = {"MISMO", "OTHER"}

\* _is_extension_type: 'EXTENSION', 'MISMO_BASE' or 'OTHER_BASE' occurs in the
\* type name
_is_extension_type(type_name) ==
    type_name \in {"EXTENSION", "LOAN_EXTENSION", "MISMO_BASE", "OTHER_BASE"}

\* isPattern005: element.tag never ends in EXTENSION for a type declaration
isPattern005(e) == _is_extension_pattern(e)

collection_name_indicators ==
    {"MESSAGE", "MESSAGES", "VERSIONS", "SETS", "RELATIONSHIPS", "SIGNATURES",
     "COLLECTIONS", "ABOUT_VERSIONS", "DEAL_SETS", "DOCUMENT_SETS",
     "SYSTEM_SIGNATURES", "ACCESS_STREETS", "ACCESSIBILITY_FEATURES",
     "LOAN_PRODUCTS", "BORROWERS", "PROPERTIES", "ADDRESSES", "PHONES",
     "EMAILS", "IDENTIFIERS", "DOCUMENTS", "LOANS", "TRANSACTIONS",
     "PAYMENTS", "ACCOUNTS"}

\* is_collection_type, method 1: some element of the sequence has a registry
\* type that is a complex type and whose registry element is not (truthy and)
\* Pattern 004 or Pattern 005; maxOccurs is not read
HasClassChild(e) ==
    \E i \in 1..Len(e.sequence) :
        LET elem_type == e.sequence[i].type IN
        /\ elem_type # ""
        /\ InRegistry(elem_type)
        /\ LET elem_type_element == InfoOf(elem_type).element IN
           /\ ~(Truthy(elem_type_element) /\ isPattern004(elem_type_element))
           /\ ~(Truthy(elem_type_element) /\ isPattern005(elem_type_element))
        /\ InfoOf(elem_type).is_owl_class

\* A classifier that is not independent of the emission state: it also calls
\* a type a collection once its plural has been emitted (the lookup in
\* transformed_types that _is_element_contained_in_collection makes).
is_collection_type_after_emission(e) ==
    \/ HasClassChild(e)
    \/ e.name \in collection_name_indicators
    \/ \E t \in transformed_types : EndsWithS(t) /\ DropLast(t) = e.name

\* is_collection_type: method 1, or (method 2) the name is a known collection name
is_collection_type(e) == HasClassChild(e) \/ e.name \in collection_name_indicators

\* has_only_attributes: no element in the sequence and at least one attribute
has_only_attributes(e) == Len(e.sequence) = 0 /\ Len(e.attributes) > 0

\* A classifier that checks simple content before the wildcard.
find_pattern_type_content_first(e) ==
    IF IsSimple(e)
    THEN IF e.union # "none" THEN "Pattern 001.1"
         ELSE IF Len(e.enumeration) > 0 THEN "Pattern 002"
         ELSE "Pattern 001"
    ELSE IF isPattern004(e) THEN "Pattern 004"
    ELSE IF isPattern003(e) THEN "Pattern 003"
    ELSE IF isPattern005(e) THEN "Pattern 005"
    ELSE IF is_collection_type(e) THEN "Pattern 007"
    ELSE IF has_only_attributes(e) THEN "Pattern 009"
    ELSE "Pattern 006"

\* find_pattern_type
find_pattern_type(e) ==
    IF IsSimple(e)
    THEN IF e.union # "none" THEN "Pattern 001.1"
         ELSE IF Len(e.enumeration) > 0 THEN "Pattern 002"
         ELSE "Pattern 001"
    ELSE IF isPattern003(e) THEN "Pattern 003"
    ELSE IF isPattern005(e) THEN "Pattern 005"
    ELSE IF isPattern004(e) THEN "Pattern 004"
    ELSE IF is_collection_type(e) THEN "Pattern 007"
    ELSE IF has_only_attributes(e) THEN "Pattern 009"
    ELSE "Pattern 006"

(***************************************************************************)
(* Turtle statements.  A statement is the record of the parts its text is  *)
(* formatted from: k is what it declares or asserts, s its subject, label  *)
(* and comment the pieces of the two literals, dom and rng the domain and  *)
(* range, sup the objects of rdfs:subClassOf or rdfs:subPropertyOf.  A     *)
(* reference is a pair <<prefix, local name>>.  The declarations of this   *)
(* model carry no xsd:documentation, so every comment is the default one.  *)
(***************************************************************************)

NoRef == <<"", "">>
Mismo(n) == <<"mismo:", n>>
OwlThing == <<"owl:", "Thing">>
XsdString == <<"", "xsd:string">>
RdfMember == <<"rdf:", "member">>

\* _format_type_reference: a name with a prefix as it is, else mismo:<name>
_format_type_reference(type_name) ==
    IF type_name = "" THEN NoRef
    ELSE IF HasColon(type_name) THEN <<"", type_name>>
    ELSE Mismo(type_name)

Stmt(k, s, label, comment, dom, rng, sup) ==
    [k |-> k, s |-> s, label |-> label, comment |-> comment,
     dom |-> dom, rng |-> rng, sup |-> sup]

\* the empty line appended after each block
Blank == Stmt("blank", NoRef, << >>, << >>, NoRef, NoRef, << >>)

\* a comment line of the output
CommentLine(text) == Stmt("comment", NoRef, << >>, <<text>>, NoRef, NoRef, << >>)

\* add_prefixes: six @prefix lines, an empty line, two comment lines, an empty line
add_prefixes ==
    <<Stmt("prefix", <<"mismo:", "">>, << >>, << >>, NoRef, NoRef, << >>),
      Stmt("prefix", <<"owl:", "">>, << >>, << >>, NoRef, NoRef, << >>),
      Stmt("prefix", <<"rdf:", "">>, << >>, << >>, NoRef, NoRef, << >>),
      Stmt("prefix", <<"rdfs:", "">>, << >>, << >>, NoRef, NoRef, << >>),
      Stmt("prefix", <<"skos:", "">>, << >>, << >>, NoRef, NoRef, << >>),
      Stmt("prefix", <<"xsd:", "">>, << >>, << >>, NoRef, NoRef, << >>),
      Blank,
      CommentLine("MISMO XSD to RDF/RDFS/OWL Transformation"),
      CommentLine("Generated from MISMO_3.6.0_B367.xsd"),
      Blank>>

\* the bare triple  mismo:<name> rdfs:subClassOf mismo:<parent> .
SubClassOfStmt(name, parent) ==
    Stmt("rdfs:subClassOf", Mismo(name), << >>, << >>, NoRef, NoRef, <<Mismo(parent)>>)

\* the class statement and superclass triples shared by transform_pattern_006,
\* _007_new and _009: with parents, a class without rdfs:subClassOf followed by
\* one triple per parent; without, a class that is rdfs:subClassOf owl:Thing
ClassWithParents(name, comment, parent_types) ==
    IF Len(parent_types) > 0
    THEN <<Stmt("owl:Class", Mismo(name), <<name>>, comment, NoRef, NoRef, << >>)>>
         \o [i \in 1..Len(parent_types) |-> SubClassOfStmt(name, parent_types[i])]
    ELSE <<Stmt("owl:Class", Mismo(name), <<name>>, comment, NoRef, NoRef, <<OwlThing>>)>>

\* the hasExtension property of transform_pattern_006 and _007_new
HasExtensionStmt(name, elem_name, elem_type) ==
    Stmt("owl:ObjectProperty", <<"mismo:", "hasExtension">>, <<"has extension">>,
         <<"Property representing the ", elem_name, " element of type ", elem_type>>,
         Mismo(name), OwlThing, << >>)

\* the attributes that have both a name and a type
NamedTypedAttributes(e) ==
    SelectSeq(e.attributes, LAMBDA a : a.name # "" /\ a.type # "")

\* the sequence elements that have both a name and a type
NamedTypedElements(e) ==
    SelectSeq(e.sequence, LAMBDA el : el.name # "" /\ el.type # "")

\* transform_pattern_001
transform_pattern_001(e) ==
    IF e.name = "" \/ ~e.restriction \/ e.base = "" THEN << >>
    ELSE IF e.base = "xsd:string" /\ e.maxLength
    THEN <<Stmt("rdfs:Datatype", Mismo(e.name), <<e.name>>,
                <<"String datatype with maximum length of ", "value", " characters">>,
                NoRef, NoRef, <<XsdString>>)>>
    ELSE <<Stmt("rdfs:Datatype", Mismo(e.name), <<e.name>>, << >>,
                NoRef, NoRef, <<_format_type_reference(e.base)>>)>>

\* transform_pattern_001_1
transform_pattern_001_1(e) ==
    IF e.name = "" \/ e.union # "memberTypes" THEN << >>
    ELSE <<Stmt("rdfs:Datatype", Mismo(e.name), <<e.name>>,
                <<"Union datatype: ", e.name>>, NoRef, NoRef,
                [i \in 1..Len(UnionMemberTypes) |->
                    IF StartsWithXsd(UnionMemberTypes[i])
                    THEN <<"", UnionMemberTypes[i]>>
                    ELSE Mismo(UnionMemberTypes[i])])>>

\* transform_pattern_002
transform_pattern_002(e) ==
    IF e.name = "" \/ ~e.restriction \/ e.base = "" THEN << >>
    ELSE LET values == SelectSeq(e.enumeration, LAMBDA v : v # "") IN
         <<Stmt("rdfs:Datatype", Mismo(e.name), <<e.name>>,
                <<"Base datatype for ", e.name, " enumerations">>,
                NoRef, NoRef, <<_format_type_reference(e.base)>>)>>
         \o [i \in 1..Len(values) |->
                Stmt("rdf:Property", Mismo(values[i]), <<values[i]>>,
                     <<"Enumeration value: ", values[i]>>,
                     NoRef, NoRef, <<Mismo(e.name)>>)]

\* A wildcard emitter whose property names carry the type's name.
transform_pattern_003_named(e) ==
    IF e.any = NoAny THEN << >>
    ELSE <<Stmt("owl:DatatypeProperty", <<"mismo:hasAnyElementContent", e.name>>,
                <<"has any element content">>, << >>, NoRef, XsdString, << >>),
           Stmt("owl:ObjectProperty", <<"mismo:hasAnyElement", e.name>>,
                <<"has any element">>, << >>, NoRef, OwlThing, << >>)>>

\* transform_pattern_003
transform_pattern_003(e) ==
    IF e.any = NoAny THEN << >>
    ELSE IF e.any = "##other"
    THEN <<Stmt("owl:DatatypeProperty", <<"mismo:", "hasOtherNamespaceElementContent">>,
                <<"has other namespace element content">>,
                <<"Property that holds the string content of any element from other namespaces">>,
                NoRef, XsdString, << >>),
           Stmt("owl:ObjectProperty", <<"mismo:", "hasOtherNamespaceElement">>,
                <<"has other namespace element">>,
                <<"Property representing complex elements that allows any elements from other namespaces (namespace='##other')">>,
                NoRef, OwlThing, << >>)>>
    ELSE <<Stmt("owl:DatatypeProperty", <<"mismo:", "hasAnyElementContent">>,
                <<"has any element content">>,
                <<"Property that holds the string content of any element from the target namespace">>,
                NoRef, XsdString, << >>),
           Stmt("owl:ObjectProperty", <<"mismo:", "hasAnyElement">>,
                <<"has any element">>,
                <<"Property representing complex elements that allows any elements from the target namespace">>,
                NoRef, OwlThing, << >>)>>

\* transform_pattern_004
transform_pattern_004(e) ==
    IF e.name = "" \/ ~e.simpleContent \/ e.base = "" THEN << >>
    ELSE LET attrs == NamedTypedAttributes(e) IN
         <<Stmt("rdfs:Datatype", Mismo(e.name), <<e.name>>,
                <<"Complex type: ", e.name>>,
                NoRef, NoRef, <<_format_type_reference(e.base)>>)>>
         \o [i \in 1..Len(attrs) |->
                Stmt("owl:DatatypeProperty", Mismo(to_camel_case(attrs[i].name)),
                     <<to_camel_case(attrs[i].name)>>,
                     <<"Attribute: ", attrs[i].name>>,
                     Mismo(e.name), _format_type_reference(attrs[i].type), << >>)]

\* transform_pattern_005
transform_pattern_005(e) ==
    LET elems == NamedTypedElements(e) IN
    [i \in 1..Len(elems) |->
        Stmt("owl:ObjectProperty", <<"mismo:has", TitleIfUpper(elems[i].name)>>,
             <<"has ", Lower(elems[i].name)>>,
             <<"Property representing the ", elems[i].name, " element of type ",
               elems[i].type>>,
             NoRef,
             IF EndsWithBASE(elems[i].type) THEN OwlThing ELSE Mismo(elems[i].type),
             << >>)]

\* transform_pattern_006
transform_pattern_006(e) ==
    IF e.name = "" THEN << >>
    ELSE LET elems == NamedTypedElements(e)
             attrs == NamedTypedAttributes(e)
         IN ClassWithParents(e.name, <<"Complex type: ", e.name>>,
                             get_parent_types(e.name))
            \o [i \in 1..Len(elems) |->
                   IF elems[i].name = "EXTENSION"
                      /\ EndsWithUnderscoreEXTENSION(elems[i].type)
                   THEN HasExtensionStmt(e.name, elems[i].name, elems[i].type)
                   ELSE Stmt("owl:DatatypeProperty", Mismo(LowerFirst(elems[i].name)),
                             <<Lower(elems[i].name)>>,
                             <<"Element: ", elems[i].name>>,
                             Mismo(e.name), _format_type_reference(elems[i].type),
                             << >>)]
            \o [i \in 1..Len(attrs) |->
                   Stmt("owl:DatatypeProperty", Mismo(LowerFirst(attrs[i].name)),
                        <<Lower(attrs[i].name)>>,
                        <<"Attribute: ", attrs[i].name>>,
                        Mismo(e.name), _format_type_reference(attrs[i].type), << >>)]

\* A contained entry that counts as a class only once its type was emitted.
IsOwlClassType_when_transformed(elem_type) ==
    /\ elem_type # "" /\ InRegistry(elem_type) /\ InfoOf(elem_type).is_owl_class
    /\ elem_type \in transformed_types

\* whether transform_pattern_007_new treats a contained entry as a class
IsOwlClassType(elem_type) ==
    elem_type # "" /\ InRegistry(elem_type) /\ InfoOf(elem_type).is_owl_class

\* the statements transform_pattern_007_new emits for one contained entry
ContainedStatements(name, c) ==
    IF c.name = "EXTENSION" /\ EndsWithUnderscoreEXTENSION(c.type)
    THEN <<HasExtensionStmt(name, c.name, c.type)>>
    ELSE IF IsOwlClassType(c.type)
    THEN <<Stmt("owl:Class", Mismo(c.name), <<c.name>>,
                <<"Individual ", c.name, " element contained in ", name, " collection">>,
                NoRef, NoRef, <<Mismo(name)>>),
           Stmt("owl:ObjectProperty", <<"mismo:contains", c.name>>,
                <<"contains ", c.name>>,
                <<"Relates ", name, " to individual ", c.name, " instances">>,
                Mismo(name), Mismo(c.name), <<RdfMember>>)>>
    ELSE <<Stmt("owl:DatatypeProperty", Mismo(c.name), <<c.name>>,
                <<"Property representing the ", c.name, " element">>,
                Mismo(name),
                IF c.type # "" THEN _format_type_reference(c.type) ELSE XsdString,
                << >>)>>

\* transform_pattern_007_new: nothing for a type without hierarchy data
transform_pattern_007_new(e) ==
    IF e.name = "" \/ ~InHierarchy(e.name) THEN << >>
    ELSE LET contained_types == ContainedOf(e.name) IN
         ClassWithParents(e.name,
                          <<"A collection containing multiple instances. ",
                            "Collection type: ", e.name>>,
                          _determine_collection_parents(e.name))
         \o Flatten([i \in 1..Len(contained_types) |->
                        ContainedStatements(e.name, contained_types[i])])

\* the pairs transform_pattern_007_new hands to
\* track_collection_element_relationship, in order
TrackedPairs(e) ==
    IF e.name = "" \/ ~InHierarchy(e.name) THEN << >>
    ELSE LET tracked == SelectSeq(ContainedOf(e.name), LAMBDA c :
                            /\ ~(c.name = "EXTENSION"
                                 /\ EndsWithUnderscoreEXTENSION(c.type))
                            /\ IsOwlClassType(c.type))
         IN [i \in 1..Len(tracked) |-> <<e.name, tracked[i].name>>]

\* An attributes-only emitter that always roots the class at owl:Thing.
transform_pattern_009_rooted(e) ==
    IF e.name = "" THEN << >>
    ELSE LET attrs == NamedTypedAttributes(e) IN
         ClassWithParents(e.name, <<"Complex type: ", e.name>>, << >>)
         \o [i \in 1..Len(attrs) |->
                Stmt("owl:DatatypeProperty", Mismo(attrs[i].name), <<attrs[i].name>>,
                     <<"Attribute: ", attrs[i].name>>,
                     Mismo(e.name), _format_type_reference(attrs[i].type), << >>)]

\* transform_pattern_009
transform_pattern_009(e) ==
    IF e.name = "" THEN << >>
    ELSE LET attrs == NamedTypedAttributes(e) IN
         ClassWithParents(e.name, <<"Complex type: ", e.name>>,
                          get_parent_types(e.name))
         \o [i \in 1..Len(attrs) |->
                Stmt("owl:DatatypeProperty", Mismo(attrs[i].name), <<attrs[i].name>>,
                     <<"Attribute: ", attrs[i].name>>,
                     Mismo(e.name), _format_type_reference(attrs[i].type), << >>)]

\* A dispatcher that does not look at disable_pattern_007.
transform_element_new_always_007(e, disabled) ==
    LET pattern_type == find_pattern_type(e) IN
    CASE pattern_type = "Pattern 001" -> transform_pattern_001(e)
      [] pattern_type = "Pattern 001.1" -> transform_pattern_001_1(e)
      [] pattern_type = "Pattern 002" -> transform_pattern_002(e)
      [] pattern_type = "Pattern 003" -> transform_pattern_003(e)
      [] pattern_type = "Pattern 004" -> transform_pattern_004(e)
      [] pattern_type = "Pattern 005" -> transform_pattern_005(e)
      [] pattern_type = "Pattern 006" -> transform_pattern_006(e)
      [] pattern_type = "Pattern 007" -> transform_pattern_007_new(e)
      [] pattern_type = "Pattern 009" -> transform_pattern_009(e)
      [] OTHER -> << >>

\* transform_element_new: the statements of the emitter of the element's
\* pattern; none for Pattern 007 when it is disabled
transform_element_new(e, disabled) ==
    LET pattern_type == find_pattern_type(e) IN
    CASE pattern_type = "Pattern 001" -> transform_pattern_001(e)
      [] pattern_type = "Pattern 001.1" -> transform_pattern_001_1(e)
      [] pattern_type = "Pattern 002" -> transform_pattern_002(e)
      [] pattern_type = "Pattern 003" -> transform_pattern_003(e)
      [] pattern_type = "Pattern 004" -> transform_pattern_004(e)
      [] pattern_type = "Pattern 005" -> transform_pattern_005(e)
      [] pattern_type = "Pattern 006" -> transform_pattern_006(e)
      [] pattern_type = "Pattern 007" ->
            IF disabled THEN << >> ELSE transform_pattern_007_new(e)
      [] pattern_type = "Pattern 009" -> transform_pattern_009(e)
      [] OTHER -> << >>

\* the pairs appended to pending_hierarchies while the element is transformed
PairsTracked(e, disabled) ==
    IF find_pattern_type(e) = "Pattern 007" /\ ~disabled THEN TrackedPairs(e) ELSE << >>

(***************************************************************************)
(* transform_xsd: the elements it visits and what one visit does.          *)
(***************************************************************************)

\* transformable_elements: the named simpleTypes whose name does not start
\* with xsd:, then every complexType not named MESSAGE
transformable_elements(doc) ==
    SelectSeq(doc, LAMBDA e : IsSimple(e) /\ e.name # "" /\ ~StartsWithXsd(e.name))
    \o SelectSeq(doc, LAMBDA e : IsComplex(e) /\ e.name # "MESSAGE")

\* whether message_element is not None
HasMessage(doc) == \E i \in 1..Len(doc) : IsComplex(doc[i]) /\ doc[i].name = "MESSAGE"

\* message_element: the last complexType named MESSAGE
message_element(doc) ==
    doc[CHOOSE i \in 1..Len(doc) :
            /\ IsComplex(doc[i]) /\ doc[i].name = "MESSAGE"
            /\ \A j \in (i + 1)..Len(doc) : ~(IsComplex(doc[j]) /\ doc[j].name = "MESSAGE")]

\* The transformer fields one visit changes:
\*   tt = transformed_types, ttl = ttl_statements, pend = pending_hierarchies,
\*   calls = the log of the invocations of transform_element_new
Fields(tt, ttl, pend, cl) == [tt |-> tt, ttl |-> ttl, pend |-> pend, calls |-> cl]

\* A visit that drops the empty line closing the previous block before it
\* appends its own.
Visit_closing_line_dropped(st, e, disabled) ==
    LET statements == transform_element_new(e, disabled)
        logged == Append(st.calls, [element |-> e,
                                    pattern |-> find_pattern_type(e),
                                    statements |-> statements,
                                    at |-> Len(st.ttl)])
    IN IF Len(statements) > 0
       THEN Fields(st.tt \cup {e.name},
                   SubSeq(st.ttl, 1, Len(st.ttl) - 1) \o statements \o <<Blank>>,
                   st.pend \o PairsTracked(e, disabled),
                   logged)
       ELSE Fields(st.tt, st.ttl, st.pend \o PairsTracked(e, disabled), logged)

\* one invocation of transform_element_new and what transform_xsd does with
\* its result: a non-empty result is appended with an empty line and the name
\* is recorded; an empty result leaves the statement list and the names alone.
\* The log keeps where in the statement list the result was put (at).
Visit(st, e, disabled) ==
    LET statements == transform_element_new(e, disabled)
        logged == Append(st.calls, [element |-> e,
                                    pattern |-> find_pattern_type(e),
                                    statements |-> statements,
                                    at |-> Len(st.ttl) + 1])
    IN IF Len(statements) > 0
       THEN Fields(st.tt \cup {e.name},
                   st.ttl \o statements \o <<Blank>>,
                   st.pend \o PairsTracked(e, disabled),
                   logged)
       ELSE Fields(st.tt, st.ttl, st.pend \o PairsTracked(e, disabled), logged)

\* "if message_element:" is the element's truth value, i.e. whether it has children
VisitMessage(st, doc, disabled) ==
    IF HasMessage(doc) /\ Truthy(message_element(doc))
    THEN Visit(st, message_element(doc), disabled)
    ELSE st

\* one iteration of the loop over transformable_elements
VisitNext(st, e, disabled) ==
    IF e.name # "" /\ e.name \notin st.tt THEN Visit(st, e, disabled) ELSE st

RECURSIVE VisitFrom(_, _, _, _)
\* the loop over transformable_elements from position i on
VisitFrom(st, doc, i, disabled) ==
    IF i > Len(transformable_elements(doc)) THEN st
    ELSE VisitFrom(VisitNext(st, transformable_elements(doc)[i], disabled),
                   doc, i + 1, disabled)

\* the fields after the prefixes, MESSAGE and every transformable element
VisitAll(doc, disabled) ==
    VisitFrom(VisitMessage(Fields({}, add_prefixes, << >>, << >>), doc, disabled),
              doc, 1, disabled)

(***************************************************************************)
(* The two closing passes.                                                 *)
(***************************************************************************)

common_patterns ==
    <<<<"ABOUT_VERSIONS", "ABOUT_VERSION">>, <<"DEAL_SETS", "DEAL_SET">>,
      <<"DOCUMENT_SETS", "DOCUMENT_SET">>, <<"SYSTEM_SIGNATURES", "SYSTEM_SIGNATURE">>,
      <<"RELATIONSHIPS", "RELATIONSHIP">>, <<"SIGNATURES", "SIGNATURE">>,
      <<"COLLECTIONS", "COLLECTION">>, <<"VERSIONS", "VERSION">>, <<"SETS", "SET">>>>

\* the pairs found by the +S rule, as a set: the code collects them while it
\* iterates over the set transformed_types, so their order is not fixed
PluralPairs(tt) == {<<t, DropLast(t)>> : t \in {x \in tt : EndsWithS(x) /\ DropLast(x) \in tt}}

\* the orders in which a set can be listed
Orderings(S) == {q \in [1..Cardinality(S) -> S] : Range(q) = S}

\* the two statements establish_class_hierarchies writes for one pair
HierarchyStatements(pair) ==
    <<Stmt("owl:ObjectProperty", <<"mismo:contains", pair[2]>>, <<"contains ", pair[2]>>,
           <<"Relates ", pair[1], " to individual ", pair[2], " instances">>,
           Mismo(pair[1]), Mismo(pair[2]), <<RdfMember>>),
      Stmt("restriction", Mismo(pair[1]), << >>, << >>, NoRef, NoRef,
           <<<<"mismo:contains", pair[2]>>>>)>>

\* establish_class_hierarchies for the +S pairs listed in the order found
establish_class_hierarchies(tt, found) ==
    LET extra == SelectSeq(common_patterns, LAMBDA cp :
                     cp[1] \in tt /\ cp[2] \in tt /\ cp \notin Range(found))
        pairs == found \o extra
    IN Flatten([i \in 1..Len(pairs) |-> HierarchyStatements(pairs[i])])

\* A consistency pass that roots every collection at owl:Thing, whatever its
\* parents.
ConsistencyStatements_rooted(pair) ==
    <<Stmt("rdfs:subClassOf", Mismo(pair[2]), << >>,
           <<"Ensure hierarchy consistency: ", pair[2], " is subclass of ", pair[1]>>,
           NoRef, NoRef, <<Mismo(pair[1])>>),
      Stmt("rdfs:subClassOf", Mismo(pair[1]), << >>,
           <<"Ensure collection hierarchy: ", pair[1], " is subclass of owl:Thing">>,
           NoRef, NoRef, <<OwlThing>>)>>

\* the statements ensure_hierarchy_consistency writes for one recorded pair
ConsistencyStatements(pair) ==
    LET collection_name == pair[1]
        element_name == pair[2]
        parent_types == _determine_collection_parents(collection_name)
    IN <<Stmt("rdfs:subClassOf", Mismo(element_name), << >>,
              <<"Ensure hierarchy consistency: ", element_name, " is subclass of ",
                collection_name>>,
              NoRef, NoRef, <<Mismo(collection_name)>>)>>
       \o (IF Len(parent_types) > 0
           THEN [i \in 1..Len(parent_types) |->
                    Stmt("rdfs:subClassOf", Mismo(collection_name), << >>,
                         <<"Ensure collection hierarchy: ", collection_name,
                           " is subclass of ", parent_types[i]>>,
                         NoRef, NoRef, <<Mismo(parent_types[i])>>)]
           ELSE <<Stmt("rdfs:subClassOf", Mismo(collection_name), << >>,
                       <<"Ensure collection hierarchy: ", collection_name,
                         " is subclass of owl:Thing">>,
                       NoRef, NoRef, <<OwlThing>>)>>)

\* ensure_hierarchy_consistency
ensure_hierarchy_consistency(pend) ==
    Flatten([i \in 1..Len(pend) |-> ConsistencyStatements(pend[i])])

(***************************************************************************)
(* The schema documents of the model.  A document is a sequence of up to   *)
(* MaxTypes declarations of one family.                                    *)
(***************************************************************************)

SequenceNumberAttrs == <<Attr("SequenceNumber", "xsd:string"), Attr("Label", "")>>

\* what a complexType of the containment family can hold
ContainmentContents ==
    {[any |-> NoAny, sequence |-> << >>, attributes |-> SequenceNumberAttrs],
     [any |-> NoAny, sequence |-> <<Elem("BORROWER", "BORROWER", "unbounded")>>,
      attributes |-> << >>],
     [any |-> NoAny, sequence |-> <<Elem("ITEM", "BORROWER", "unbounded")>>,
      attributes |-> << >>],
     [any |-> NoAny, sequence |-> <<Elem("ITEM", "xsd:string", "")>>,
      attributes |-> << >>],
     [any |-> NoAny, sequence |-> <<Elem("BORROWER", "BORROWER", "")>>,
      attributes |-> SequenceNumberAttrs],
     [any |-> "", sequence |-> << >>, attributes |-> << >>],
     [any |-> "", sequence |-> <<Elem("BORROWER", "BORROWER", "")>>,
      attributes |-> << >>],
     [any |-> NoAny,
      sequence |-> <<Elem("BORROWER", "BORROWER", "unbounded"),
                     Elem("ITEM", "BORROWER", "")>>,
      attributes |-> << >>]}

\* collections, their members and plain classes
ContainmentFamily ==
    {ComplexType(n, c.any, FALSE, "", c.sequence, c.attributes) :
        n \in {"BORROWERS", "BORROWER"}, c \in ContainmentContents}

\* wildcards, simple content and extensions, alone and together
PatternFamily ==
    {ComplexType(n, any, sc, IF sc THEN "xsd:string" ELSE "", << >>,
                 <<Attr("SequenceNumber", "xsd:string")>>) :
        n \in {"MESSAGE", "LOAN_EXTENSION"}, any \in {NoAny, "", "##other", "##any"},
        sc \in BOOLEAN}
    \cup {ComplexType("LOAN_EXTENSION", NoAny, FALSE, "",
                      <<Elem("MISMO", "MISMO_BASE", ""), Elem("OTHER", "OTHER_BASE", "")>>,
                      << >>)}

\* unions, enumerations and restrictions
SimpleFamily ==
    {SimpleType("LOAN_STATUS_TYPE", u, FALSE, "", FALSE, << >>) :
        u \in {"memberTypes", "empty"}}
    \cup {SimpleType("LOAN_STATUS_TYPE", "memberTypes", TRUE, "xsd:string", FALSE,
                     <<"Active">>)}
    \cup {SimpleType("LOAN_STATUS_TYPE", "none", TRUE, b, FALSE, en) :
            b \in {"xsd:string", ""},
            en \in {<<"Active">>, <<"Active", "Closed">>, <<"", "Active">>}}
    \cup {SimpleType("LOAN_STATUS_TYPE", "none", TRUE, b, ml, << >>) :
            b \in {"xsd:string", "BORROWER"}, ml \in BOOLEAN}

\* simple and complex types in one document: a MESSAGE with and without
\* children, elements of simple registry types, and sequences that look like
\* an extension by their element names or by their element types
MixedFamily ==
    {SimpleType("LOAN_STATUS_TYPE", "none", TRUE, "xsd:string", FALSE, <<"Active">>),
     SimpleType("ITEM", "none", TRUE, "xsd:string", TRUE, << >>),
     ComplexType("MESSAGE", NoAny, FALSE, "", <<Elem("BORROWER", "BORROWER", "")>>, << >>),
     ComplexType("MESSAGE", NoAny, FALSE, "", << >>, << >>),
     ComplexType("BORROWER", NoAny, FALSE, "", << >>, SequenceNumberAttrs),
     ComplexType("BORROWER", NoAny, FALSE, "",
                 <<Elem("ITEM", "ITEM", "unbounded")>>, << >>),
     ComplexType("BORROWER", NoAny, FALSE, "",
                 <<Elem("MISMO", "xsd:string", ""), Elem("OTHER", "xsd:string", "")>>,
                 << >>),
     ComplexType("BORROWER", NoAny, FALSE, "",
                 <<Elem("EXTENSION", "MISMO_BASE", "")>>, << >>),
     ComplexType("BORROWERS", NoAny, FALSE, "",
                 <<Elem("ITEM", "BORROWERS", ""), Elem("MISMO", "BORROWERS", ""),
                   Elem("OTHER", "BORROWERS", ""), Elem("EXTENSION", "BORROWERS", ""),
                   Elem("MESSAGE", "BORROWERS", ""),
                   Elem("LOAN_EXTENSION", "BORROWERS", "")>>,
                 << >>),
     ComplexType("BORROWER", NoAny, FALSE, "",
                 <<Elem("ITEM", "xsd:string", "")>>,
                 <<Attr("SequenceNumber", "BORROWER")>>)}

Families == {ContainmentFamily, PatternFamily, SimpleFamily, MixedFamily}

\* whether no two declarations of the document have the same name
UniqueNames(doc) ==
    \A i, j \in 1..Len(doc) : doc[i].name = doc[j].name => i = j

(***************************************************************************)
(* main and transform_xsd as a process.                                    *)
(***************************************************************************)

\* no call of _format_comment_for_ttl is followed on its own
CommentNotFormatted ==
    /\ comment_arg = [is_none |-> TRUE, text |-> << >>]
    /\ formatted = [returned |-> FALSE, text |-> << >>]

\* VirtuosoUploader is not part of this command line
UploaderNotRun ==
    /\ upload_args = [file_exists |-> FALSE, method |-> "isql", verify |-> FALSE]
    /\ upload_pc = "idle"
    /\ upload_polls = 0
    /\ upload_log = << >>
    /\ success = FALSE
    /\ upload_result = "unset"

\* XSDTransformer is not part of this command line: its fields stay as its
\* constructor leaves them and run is never called
XSDTransformerNotRun ==
    /\ main_xsd = [directives |-> << >>, parsable |-> TRUE]
    /\ skip_import = FALSE
    /\ readable_files = {}
    /\ run_pc = "idle"
    /\ directive = 1
    /\ processed_files = {}
    /\ delegated = << >>
    /\ g = {}
    /\ failure = "none"
    /\ output_written = FALSE

Init ==
    /\ \E family \in Families : schema \in SeqsUpTo(family, MaxTypes)
    /\ disable_pattern_007 \in BOOLEAN
    /\ run_no = 1
    /\ first_run = [schema |-> << >>, statements |-> {}]
    /\ XSDTransformerNotRun
    /\ CommentNotFormatted
    /\ UploaderNotRun
    /\ pc = "main"
    /\ idx = 1
    /\ complex_type_info = << >>
    /\ hierarchy_data = << >>
    /\ transformed_types = {}
    /\ ttl_statements = << >>
    /\ pending_hierarchies = << >>
    /\ calls = << >>
    /\ input_exists = "unset"
    /\ transform_xsd_result = "unset"
    /\ write_ttl_result = "unset"
    /\ exit_code = -1

\* the transformer fields as a Fields record, and back
CurrentFields == Fields(transformed_types, ttl_statements, pending_hierarchies, calls)

SetFields(st) ==
    /\ transformed_types' = st.tt
    /\ ttl_statements' = st.ttl
    /\ pending_hierarchies' = st.pend
    /\ calls' = st.calls

\* main up to the existence check: a missing input file is exit code 1
MainCheckInput ==
    /\ pc = "main"
    /\ \E exists \in BOOLEAN :
        /\ input_exists' = (IF exists THEN "True" ELSE "False")
        /\ pc' = (IF exists THEN "parse" ELSE "exit")
        /\ exit_code' = (IF exists THEN exit_code ELSE 1)
    /\ UNCHANGED <<secondRunVars, importVars, commentVars, uploadVars>>
    /\ UNCHANGED <<schema, disable_pattern_007, idx, complex_type_info, hierarchy_data,
                   transformed_types, ttl_statements, pending_hierarchies, calls,
                   transform_xsd_result, write_ttl_result>>

\* transform_xsd: ET.parse, then add_prefixes; a parse error is caught, makes
\* transform_xsd return False and main exit with 1
ParseXsd ==
    /\ pc = "parse"
    /\ \E well_formed \in BOOLEAN :
        IF well_formed
        THEN /\ ttl_statements' = ttl_statements \o add_prefixes
             /\ pc' = "analyze"
             /\ UNCHANGED <<transform_xsd_result, exit_code>>
        ELSE /\ transform_xsd_result' = "False"
             /\ exit_code' = 1
             /\ pc' = "exit"
             /\ UNCHANGED ttl_statements
    /\ UNCHANGED <<secondRunVars, importVars, commentVars, uploadVars>>
    /\ UNCHANGED <<schema, disable_pattern_007, idx, complex_type_info, hierarchy_data,
                   transformed_types, pending_hierarchies, calls, input_exists,
                   write_ttl_result>>

\* transform_xsd: analyze_xsd_structure and build_hierarchy_data
AnalyzeXsd ==
    /\ pc = "analyze"
    /\ complex_type_info' = analyze_xsd_structure(schema)
    /\ hierarchy_data' = build_hierarchy_data(analyze_xsd_structure(schema))
    /\ pc' = "message"
    /\ UNCHANGED <<secondRunVars, importVars, commentVars, uploadVars>>
    /\ UNCHANGED <<schema, disable_pattern_007, idx, transformed_types, ttl_statements,
                   pending_hierarchies, calls, input_exists, transform_xsd_result,
                   write_ttl_result, exit_code>>

\* transform_xsd: MESSAGE first, if there is one and it is truthy
TransformMessage ==
    /\ pc = "message"
    /\ SetFields(VisitMessage(CurrentFields, schema, disable_pattern_007))
    /\ idx' = 1
    /\ pc' = "loop"
    /\ UNCHANGED <<secondRunVars, importVars, commentVars, uploadVars>>
    /\ UNCHANGED <<schema, disable_pattern_007, complex_type_info, hierarchy_data,
                   input_exists, transform_xsd_result, write_ttl_result, exit_code>>

\* transform_xsd: one iteration of the loop over transformable_elements
TransformNext ==
    /\ pc = "loop"
    /\ idx <= Len(transformable_elements(schema))
    /\ SetFields(VisitNext(CurrentFields, transformable_elements(schema)[idx],
                           disable_pattern_007))
    /\ idx' = idx + 1
    /\ UNCHANGED <<secondRunVars, importVars, commentVars, uploadVars>>
    /\ UNCHANGED <<schema, disable_pattern_007, pc, complex_type_info, hierarchy_data,
                   input_exists, transform_xsd_result, write_ttl_result, exit_code>>

\* transform_xsd after the loop: the block of establish_class_hierarchies,
\* written only when it is not empty
EstablishHierarchies ==
    /\ pc = "loop"
    /\ idx > Len(transformable_elements(schema))
    /\ \E found \in Orderings(PluralPairs(transformed_types)) :
        LET hierarchy_statements == establish_class_hierarchies(transformed_types, found)
        IN ttl_statements' =
             IF Len(hierarchy_statements) > 0
             THEN ttl_statements
                  \o <<Blank, CommentLine("Class Hierarchies and Containment Relationships"),
                       Blank>>
                  \o hierarchy_statements \o <<Blank>>
             ELSE ttl_statements
    /\ pc' = "consistency"
    /\ UNCHANGED <<secondRunVars, importVars, commentVars, uploadVars>>
    /\ UNCHANGED <<schema, disable_pattern_007, idx, complex_type_info, hierarchy_data,
                   transformed_types, pending_hierarchies, calls, input_exists,
                   transform_xsd_result, write_ttl_result, exit_code>>

\* A transform_xsd that writes the consistency block right after the prefixes.
EnsureConsistency_after_prefixes ==
    /\ pc = "consistency"
    /\ LET consistency_statements == ensure_hierarchy_consistency(pending_hierarchies)
       IN ttl_statements' =
            IF Len(consistency_statements) > 0
            THEN add_prefixes
                 \o <<Blank, CommentLine("Hierarchy Consistency"), Blank>>
                 \o consistency_statements \o <<Blank>>
                 \o SubSeq(ttl_statements, Len(add_prefixes) + 1, Len(ttl_statements))
            ELSE ttl_statements
    /\ transform_xsd_result' = "True"
    /\ pc' = "write"
    /\ UNCHANGED <<secondRunVars, importVars, commentVars, uploadVars>>
    /\ UNCHANGED <<schema, disable_pattern_007, idx, complex_type_info, hierarchy_data,
                   transformed_types, pending_hierarchies, calls, input_exists,
                   write_ttl_result, exit_code>>

\* transform_xsd to its end: the block of ensure_hierarchy_consistency,
\* written only when it is not empty, then return True
EnsureConsistency ==
    /\ pc = "consistency"
    /\ LET consistency_statements == ensure_hierarchy_consistency(pending_hierarchies)
       IN ttl_statements' =
            IF Len(consistency_statements) > 0
            THEN ttl_statements \o <<Blank, CommentLine("Hierarchy Consistency"), Blank>>
                 \o consistency_statements \o <<Blank>>
            ELSE ttl_statements
    /\ transform_xsd_result' = "True"
    /\ pc' = "write"
    /\ UNCHANGED <<secondRunVars, importVars, commentVars, uploadVars>>
    /\ UNCHANGED <<schema, disable_pattern_007, idx, complex_type_info, hierarchy_data,
                   transformed_types, pending_hierarchies, calls, input_exists,
                   write_ttl_result, exit_code>>

\* A main that does not look at what write_ttl returned.
WriteTtl_unchecked ==
    /\ pc = "write"
    /\ \E written \in BOOLEAN :
        /\ write_ttl_result' = (IF written THEN "True" ELSE "False")
        /\ exit_code' = 0
    /\ pc' = "exit"
    /\ UNCHANGED <<secondRunVars, importVars, commentVars, uploadVars>>
    /\ UNCHANGED <<schema, disable_pattern_007, idx, complex_type_info, hierarchy_data,
                   transformed_types, ttl_statements, pending_hierarchies, calls,
                   input_exists, transform_xsd_result>>

\* main: write_ttl, whose I/O error is caught and makes it return False;
\* exit code 1 then, and 0 (main returns) otherwise
WriteTtl ==
    /\ pc = "write"
    /\ \E written \in BOOLEAN :
        /\ write_ttl_result' = (IF written THEN "True" ELSE "False")
        /\ exit_code' = (IF written THEN 0 ELSE 1)
    /\ pc' = "exit"
    /\ UNCHANGED <<secondRunVars, importVars, commentVars, uploadVars>>
    /\ UNCHANGED <<schema, disable_pattern_007, idx, complex_type_info, hierarchy_data,
                   transformed_types, ttl_statements, pending_hierarchies, calls,
                   input_exists, transform_xsd_result>>

Next ==
    \/ MainCheckInput
    \/ ParseXsd
    \/ AnalyzeXsd
    \/ TransformMessage
    \/ TransformNext
    \/ EstablishHierarchies
    \/ EnsureConsistency
    \/ WriteTtl

Spec == Init /\ [][Next]_vars

(***************************************************************************)
(* The command line run twice: on a document, and then on the same         *)
(* declarations in another order.                                          *)
(***************************************************************************)

\* the statements of an output, without the empty lines and the comment lines
EmittedStatements(statements) ==
    {statements[i] : i \in {j \in 1..Len(statements) :
                                statements[j].k \notin {"blank", "comment"}}}

\* the orders in which the declarations of a document can be written
Permuted(doc) ==
    {[i \in 1..Len(doc) |-> doc[p[i]]] :
        p \in {q \in [1..Len(doc) -> 1..Len(doc)] : Range(q) = 1..Len(doc)}}

\* main once more, after a run that exited with 0: a new transformer, the
\* same option, the declarations of the document in any order
RunAgain ==
    /\ pc = "exit"
    /\ exit_code = 0
    /\ run_no = 1
    /\ first_run' = [schema |-> schema,
                     statements |-> EmittedStatements(ttl_statements)]
    /\ run_no' = 2
    /\ schema' \in Permuted(schema)
    /\ pc' = "main"
    /\ idx' = 1
    /\ complex_type_info' = << >>
    /\ hierarchy_data' = << >>
    /\ transformed_types' = {}
    /\ ttl_statements' = << >>
    /\ pending_hierarchies' = << >>
    /\ calls' = << >>
    /\ input_exists' = "unset"
    /\ transform_xsd_result' = "unset"
    /\ write_ttl_result' = "unset"
    /\ exit_code' = -1
    /\ UNCHANGED <<disable_pattern_007, importVars, commentVars, uploadVars>>

NextTwoRuns ==
    \/ Next
    \/ RunAgain

SpecTwoRuns == Init /\ [][NextTwoRuns]_vars

(***************************************************************************)
(* XSDTransformer of src/ontology/transform.py: run, process_imports and   *)
(* process_import.  The root schema is main.xsd in the working directory;  *)
(* it is the sequence of its xsd:import and xsd:include directives.  The   *)
(* emitters for xml.xsd and xlinkMISMOB367.xsd begin with ET.parse of the  *)
(* path they are given, which raises when the file cannot be read.         *)
(***************************************************************************)

\* Largest number of import and include directives in the root schema.
MaxDirectives == 2

\* the path of the root schema
MainXsdPath == "main.xsd"

\* the schemaLocation values of the model; "" is a directive without one
SchemaLocations ==
    {"", "xml.xsd", "./xml.xsd", "xlinkMISMOB367.xsd", "types.xsd", "main.xsd"}

Directives ==
    [tag : {"import", "include"}, schemaLocation : SchemaLocations]

\* the files an emitter may be asked to parse
ImportFiles == {"xml.xsd", "xlinkMISMOB367.xsd"}

\* os.path.normpath(os.path.join(os.path.dirname(schema_path), schema_location))
\* for a schema_path without a directory
ImportPath(schema_location) ==
    IF schema_location = "./xml.xsd" THEN "xml.xsd" ELSE schema_location

\* "xml.xsd" in os.path.basename(import_path)
IsXmlXsd(import_path) == import_path = "xml.xsd"

\* "xlinkMISMOB367.xsd" in os.path.basename(import_path)
IsXlinkXsd(import_path) == import_path = "xlinkMISMOB367.xsd"

\* the order process_imports takes the directives in: every xsd:import, then
\* every xsd:include
DirectivesInOrder(doc) ==
    SelectSeq(doc.directives, LAMBDA d : d.tag = "import")
    \o SelectSeq(doc.directives, LAMBDA d : d.tag = "include")

\* MISMOXSDTransformer is not part of this command line
MISMOXSDTransformerNotRun ==
    /\ schema = << >>
    /\ disable_pattern_007 = FALSE
    /\ pc = "idle"
    /\ idx = 1
    /\ complex_type_info = << >>
    /\ hierarchy_data = << >>
    /\ transformed_types = {}
    /\ ttl_statements = << >>
    /\ pending_hierarchies = << >>
    /\ calls = << >>
    /\ input_exists = "unset"
    /\ transform_xsd_result = "unset"
    /\ write_ttl_result = "unset"
    /\ exit_code = -1
    /\ run_no = 1
    /\ first_run = [schema |-> << >>, statements |-> {}]

mismoVars == <<schema, disable_pattern_007, pc, idx, complex_type_info, hierarchy_data,
               transformed_types, ttl_statements, pending_hierarchies, calls,
               input_exists, transform_xsd_result, write_ttl_result, exit_code,
               secondRunVars>>

\* XSDTransformer.__init__ and the files around it
InitImports ==
    /\ MISMOXSDTransformerNotRun
    /\ CommentNotFormatted
    /\ UploaderNotRun
    /\ main_xsd \in [directives : SeqsUpTo(Directives, MaxDirectives),
                     parsable : BOOLEAN]
    /\ skip_import \in BOOLEAN
    /\ readable_files \in SUBSET ImportFiles
    /\ run_pc = "run"
    /\ directive = 1
    /\ processed_files = {}
    /\ delegated = << >>
    /\ g = {}
    /\ failure = "none"
    /\ output_written = FALSE

\* run up to the imports: process_imports unless skip_import
RunStart ==
    /\ run_pc = "run"
    /\ run_pc' = (IF skip_import THEN "root" ELSE "process_imports")
    /\ UNCHANGED <<commentVars, uploadVars>>
    /\ UNCHANGED <<mismoVars, main_xsd, skip_import, readable_files, directive,
                   processed_files, delegated, g, failure, output_written>>

\* process_imports up to its loops: the root path is recorded as processed,
\* then ET.parse, whose error nothing catches
ProcessImportsParse ==
    /\ run_pc = "process_imports"
    /\ processed_files' = processed_files \cup {MainXsdPath}
    /\ IF main_xsd.parsable
       THEN /\ run_pc' = "directives"
            /\ directive' = 1
            /\ UNCHANGED failure
       ELSE /\ run_pc' = "raised"
            /\ failure' = "root"
            /\ UNCHANGED directive
    /\ UNCHANGED <<commentVars, uploadVars>>
    /\ UNCHANGED <<mismoVars, main_xsd, skip_import, readable_files, delegated, g,
                   output_written>>

\* one emitter run for import_path: process() starts with ET.parse of the
\* path, whose error nothing catches on the way out of run
Delegate(emitter, import_path) ==
    IF import_path \in readable_files
    THEN /\ delegated' = Append(delegated, [emitter |-> emitter, path |-> import_path,
                                            completed |-> TRUE])
         /\ g' = g \cup {emitter}
         /\ directive' = directive + 1
         /\ UNCHANGED <<run_pc, failure>>
    ELSE /\ delegated' = Append(delegated, [emitter |-> emitter, path |-> import_path,
                                            completed |-> FALSE])
         /\ run_pc' = "raised"
         /\ failure' = "import"
         /\ UNCHANGED <<g, directive>>

\* process_import for the next directive: nothing without a schemaLocation
\* or for a path in processed_files; the emitter for xml.xsd or for
\* xlinkMISMOB367.xsd; an error message for any other file.  Nothing is added
\* to processed_files.
ProcessImport ==
    /\ run_pc = "directives"
    /\ directive <= Len(DirectivesInOrder(main_xsd))
    /\ LET node == DirectivesInOrder(main_xsd)[directive]
           import_path == ImportPath(node.schemaLocation)
       IN IF node.schemaLocation = "" \/ import_path \in processed_files
          THEN /\ directive' = directive + 1
               /\ UNCHANGED <<run_pc, delegated, g, failure>>
          ELSE IF IsXmlXsd(import_path) THEN Delegate("XMLXSDToTurtle", import_path)
          ELSE IF IsXlinkXsd(import_path) THEN Delegate("XLinkXSDToTurtle", import_path)
          ELSE /\ directive' = directive + 1
               /\ UNCHANGED <<run_pc, delegated, g, failure>>
    /\ UNCHANGED <<commentVars, uploadVars>>
    /\ UNCHANGED <<mismoVars, main_xsd, skip_import, readable_files, processed_files,
                   output_written>>

\* process_imports returns to run
ProcessImportsReturn ==
    /\ run_pc = "directives"
    /\ directive > Len(DirectivesInOrder(main_xsd))
    /\ run_pc' = "root"
    /\ UNCHANGED <<commentVars, uploadVars>>
    /\ UNCHANGED <<mismoVars, main_xsd, skip_import, readable_files, directive,
                   processed_files, delegated, g, failure, output_written>>

\* run: ET.parse of the root schema and its transformation into the graph
TransformRoot ==
    /\ run_pc = "root"
    /\ IF main_xsd.parsable
       THEN /\ g' = g \cup {"root"}
            /\ run_pc' = "write"
            /\ UNCHANGED failure
       ELSE /\ run_pc' = "raised"
            /\ failure' = "root"
            /\ UNCHANGED g
    /\ UNCHANGED <<commentVars, uploadVars>>
    /\ UNCHANGED <<mismoVars, main_xsd, skip_import, readable_files, directive,
                   processed_files, delegated, output_written>>

\* run: the Turtle file is opened and written; an I/O error is not caught
WriteTurtle ==
    /\ run_pc = "write"
    /\ \E writable \in BOOLEAN :
        IF writable
        THEN /\ output_written' = TRUE
             /\ run_pc' = "done"
             /\ UNCHANGED failure
        ELSE /\ run_pc' = "raised"
             /\ failure' = "write"
             /\ UNCHANGED output_written
    /\ UNCHANGED <<commentVars, uploadVars>>
    /\ UNCHANGED <<mismoVars, main_xsd, skip_import, readable_files, directive,
                   processed_files, delegated, g>>

NextImports ==
    \/ RunStart
    \/ ProcessImportsParse
    \/ ProcessImport
    \/ ProcessImportsReturn
    \/ TransformRoot
    \/ WriteTurtle

SpecImports == InitImports /\ [][NextImports]_vars

(***************************************************************************)
(* _format_comment_for_ttl on its own.  A comment is None or a text, and a *)
(* text is the sequence of its characters.                                 *)
(***************************************************************************)

\* Largest number of characters in a comment.
MaxCommentLen == 3

Quote == "\""
Newline == "\n"
Space == " "
Backslash == "\\"

\* the characters of the comments of the model
CommentChars == {"a", Quote, Newline, Space}

\* the whitespace str.strip() removes
IsWhitespace(ch) == ch \in {Space, Newline}

RECURSIVE lstrip(_)
lstrip(s) == IF Len(s) > 0 /\ IsWhitespace(Head(s)) THEN lstrip(Tail(s)) ELSE s

RECURSIVE rstrip(_)
rstrip(s) ==
    IF Len(s) > 0 /\ IsWhitespace(s[Len(s)]) THEN rstrip(SubSeq(s, 1, Len(s) - 1)) ELSE s

\* comment.strip()
strip(s) == rstrip(lstrip(s))

\* comment.replace('"', '\\"')
EscapeQuotes(s) ==
    Flatten([i \in 1..Len(s) |-> IF s[i] = Quote THEN <<Backslash, Quote>> ELSE <<s[i]>>])

\* _format_comment_for_ttl: the empty string for None and for the empty
\* string; else the stripped text with its quotes escaped, between triple
\* quotes and newlines when it has a newline, between quotes otherwise
_format_comment_for_ttl(c) ==
    IF c.is_none \/ Len(c.text) = 0 THEN << >>
    ELSE LET stripped == strip(c.text)
             escaped_comment == EscapeQuotes(stripped)
         IN IF Newline \in Range(stripped)
            THEN <<Quote, Quote, Quote, Newline>> \o escaped_comment
                 \o <<Newline, Quote, Quote, Quote>>
            ELSE <<Quote>> \o escaped_comment \o <<Quote>>

\* the comments of the model: None and every text of up to MaxCommentLen
\* characters, the empty one included
Comments ==
    {[is_none |-> TRUE, text |-> << >>], [is_none |-> FALSE, text |-> << >>]}
    \cup {[is_none |-> FALSE, text |-> s] : s \in SeqsUpTo(CommentChars, MaxCommentLen)}

InitComment ==
    /\ MISMOXSDTransformerNotRun
    /\ XSDTransformerNotRun
    /\ UploaderNotRun
    /\ comment_arg \in Comments
    /\ formatted = [returned |-> FALSE, text |-> << >>]

\* one call of _format_comment_for_ttl
FormatComment ==
    /\ ~formatted.returned
    /\ formatted' = [returned |-> TRUE, text |-> _format_comment_for_ttl(comment_arg)]
    /\ UNCHANGED <<mismoVars, importVars, uploadVars, comment_arg>>

NextComment == FormatComment

SpecComment == InitComment /\ [][NextComment]_vars

(***************************************************************************)
(* upload_pipeline.py: VirtuosoUploader.upload.  What the file system, the *)
(* docker command and the server answer is chosen at each step; upload_log *)
(* keeps the steps taken, in order, each with its outcome.                 *)
(***************************************************************************)

\* Largest number of requests wait_for_virtuoso makes before its timeout.
MaxPolls == 3

\* the methods upload dispatches on
TransferMethods == {"isql", "sparql", "bulk"}

\* the values of the argument method: the three known ones and another one
Methods == TransferMethods \cup {"http"}

\* the transfers that catch CalledProcessError only, so that another exception
\* leaves upload
RaisingTransfers == {"isql", "bulk"}

Step(step, ok) == [step |-> step, ok |-> ok]

InitUpload ==
    /\ MISMOXSDTransformerNotRun
    /\ XSDTransformerNotRun
    /\ CommentNotFormatted
    /\ upload_args \in [file_exists : BOOLEAN, method : Methods, verify : BOOLEAN]
    /\ upload_pc = "exists"
    /\ upload_polls = 0
    /\ upload_log = << >>
    /\ success = FALSE
    /\ upload_result = "unset"

\* a return of upload before the transfer
ReturnFalse ==
    /\ upload_pc' = "done"
    /\ upload_result' = "False"

\* if not os.path.exists(ttl_file): return False
CheckFileExists ==
    /\ upload_pc = "exists"
    /\ upload_log' = Append(upload_log, Step("exists", upload_args.file_exists))
    /\ IF upload_args.file_exists
       THEN upload_pc' = "running" /\ UNCHANGED upload_result
       ELSE ReturnFalse
    /\ UNCHANGED <<mismoVars, importVars, commentVars, upload_args, upload_polls, success>>

\* A container check whose answer is not looked at.
CheckVirtuosoRunning_unchecked ==
    /\ upload_pc = "running"
    /\ \E outcome \in {"True", "False", "raised"} :
           /\ upload_log' = Append(upload_log, Step("running", outcome = "True"))
           /\ upload_pc' = IF outcome = "raised" THEN "raised" ELSE "wait"
           /\ UNCHANGED upload_result
    /\ UNCHANGED <<mismoVars, importVars, commentVars, upload_args, upload_polls, success>>

\* if not self.check_virtuoso_running(): return False.  docker ps lists the
\* container, does not list it or exits with an error (False), or cannot be
\* started at all, which check_virtuoso_running does not catch
CheckVirtuosoRunning ==
    /\ upload_pc = "running"
    /\ \E outcome \in {"True", "False", "raised"} :
           /\ upload_log' = Append(upload_log, Step("running", outcome = "True"))
           /\ CASE outcome = "True" -> upload_pc' = "wait" /\ UNCHANGED upload_result
                [] outcome = "False" -> ReturnFalse
                [] OTHER -> upload_pc' = "raised" /\ UNCHANGED upload_result
    /\ UNCHANGED <<mismoVars, importVars, commentVars, upload_args, upload_polls, success>>

\* one iteration of the loop of wait_for_virtuoso: status 200 ends the wait
\* with True; another status or a RequestException is followed by the sleep,
\* after which the time is up (at the latest after MaxPolls requests) or not
WaitForVirtuoso ==
    /\ upload_pc = "wait"
    /\ upload_polls < MaxPolls
    /\ upload_polls' = upload_polls + 1
    /\ \E response \in {"200", "503", "RequestException"},
          timed_out \in {t \in BOOLEAN : upload_polls + 1 = MaxPolls => t} :
           IF response = "200"
           THEN /\ upload_log' = Append(upload_log, Step("wait", TRUE))
                /\ upload_pc' = "transfer"
                /\ UNCHANGED upload_result
           ELSE IF timed_out
           THEN /\ upload_log' = Append(upload_log, Step("wait", FALSE))
                /\ ReturnFalse
           ELSE UNCHANGED <<upload_log, upload_pc, upload_result>>
    /\ UNCHANGED <<mismoVars, importVars, commentVars, upload_args, success>>

\* the dispatch on method: the transfer returns True or False, or (isql and
\* bulk) raises; another method returns False at once
Transfer ==
    /\ upload_pc = "transfer"
    /\ IF upload_args.method \in TransferMethods
       THEN \E outcome \in {"True", "False"}
                    \cup (IF upload_args.method \in RaisingTransfers THEN {"raised"} ELSE {}) :
                /\ upload_log' = Append(upload_log, Step(upload_args.method, outcome = "True"))
                /\ IF outcome = "raised"
                   THEN upload_pc' = "raised" /\ UNCHANGED success
                   ELSE /\ success' = (outcome = "True")
                        /\ upload_pc' = IF success' /\ upload_args.verify
                                        THEN "verify" ELSE "return"
                /\ UNCHANGED upload_result
       ELSE /\ ReturnFalse
            /\ UNCHANGED <<upload_log, success>>
    /\ UNCHANGED <<mismoVars, importVars, commentVars, upload_args, upload_polls>>

\* self.verify_upload(graph_uri): a count or None, which upload drops
VerifyUpload ==
    /\ upload_pc = "verify"
    /\ \E counted \in BOOLEAN : upload_log' = Append(upload_log, Step("verify", counted))
    /\ upload_pc' = "return"
    /\ UNCHANGED <<mismoVars, importVars, commentVars, upload_args, upload_polls, success,
                   upload_result>>

\* return success
ReturnSuccess ==
    /\ upload_pc = "return"
    /\ upload_result' = IF success THEN "True" ELSE "False"
    /\ upload_pc' = "done"
    /\ UNCHANGED <<mismoVars, importVars, commentVars, upload_args, upload_polls, upload_log,
                   success>>

NextUpload ==
    \/ CheckFileExists
    \/ CheckVirtuosoRunning
    \/ WaitForVirtuoso
    \/ Transfer
    \/ VerifyUpload
    \/ ReturnSuccess

SpecUpload == InitUpload /\ [][NextUpload]_vars

(***************************************************************************)
(* Reading the output.                                                     *)
(***************************************************************************)

\* transform_xsd has returned True
TransformCompleted == transform_xsd_result = "True"

\* the output has a statement  mismo:<n> a owl:Class
ClassDeclared(n) ==
    \E i \in 1..Len(ttl_statements) :
        ttl_statements[i].k = "owl:Class" /\ ttl_statements[i].s = Mismo(n)

\* the objects of the rdfs:subClassOf assertions the output makes about
\* mismo:<n>, inside its class statement or as a triple of their own
SuperclassesInOutput(n) ==
    UNION {Range(ttl_statements[i].sup) :
             i \in {j \in 1..Len(ttl_statements) :
                      /\ ttl_statements[j].s = Mismo(n)
                      /\ ttl_statements[j].k \in {"owl:Class", "rdfs:subClassOf"}}}

\* the output has an rdfs:subClassOf statement with subject mismo:<n>, the
\* cardinality restrictions of the hierarchy block included
HasSubClassOfStatement(n) ==
    \/ SuperclassesInOutput(n) # {}
    \/ \E i \in 1..Len(ttl_statements) :
          ttl_statements[i].k = "restriction" /\ ttl_statements[i].s = Mismo(n)

\* the output has the object property mismo:contains<x> from c to x
ContainsPropertyInOutput(c, x) ==
    \E i \in 1..Len(ttl_statements) :
        /\ ttl_statements[i].k = "owl:ObjectProperty"
        /\ ttl_statements[i].s = <<"mismo:contains", x>>
        /\ ttl_statements[i].dom = Mismo(c)
        /\ ttl_statements[i].rng = Mismo(x)

\* the positions of the statements of kind k in a list of statements
OfKind(statements, k) == {i \in 1..Len(statements) : statements[i].k = k}

(***************************************************************************)
(* C1.  After transform_xsd has completed with Pattern 007 enabled, every  *)
(* named complex type classified Pattern 006, 007 or 009 is the subject of *)
(* at least one rdfs:subClassOf statement of the output, also a type that  *)
(* is a collection by its name only.  The code does not do this: a         *)
(* collection without hierarchy data gets no statement at all.             *)
(***************************************************************************)
C1_EveryClassTypeHasSuperclass ==
    (TransformCompleted /\ ~disable_pattern_007) =>
        \A i \in 1..Len(schema) :
            (/\ IsComplex(schema[i])
             /\ schema[i].name # ""
             /\ find_pattern_type(schema[i]) \in {"Pattern 006", "Pattern 007", "Pattern 009"})
            => HasSubClassOfStatement(schema[i].name)

(***************************************************************************)
(* C3.  After transform_xsd has completed with Pattern 007 enabled, for    *)
(* every Pattern 007 type C and every element of its sequence that is      *)
(* unbounded and whose type X is a complex registry type, the output       *)
(* declares X a class, asserts X rdfs:subClassOf C and has the property    *)
(* containsX with domain C and range X.  The code names the class and the  *)
(* property after the element, not after its type.                         *)
(***************************************************************************)
C3_ContainedTypeClassAndProperty ==
    (TransformCompleted /\ ~disable_pattern_007) =>
        \A i \in 1..Len(schema) :
            find_pattern_type(schema[i]) = "Pattern 007" =>
                \A j \in 1..Len(schema[i].sequence) :
                    LET el == schema[i].sequence[j] IN
                    (el.maxOccurs = "unbounded" /\ IsOwlClassType(el.type)) =>
                        /\ ClassDeclared(el.type)
                        /\ Mismo(schema[i].name) \in SuperclassesInOutput(el.type)
                        /\ ContainsPropertyInOutput(schema[i].name, el.type)

(***************************************************************************)
(* C4.  Every invocation of the emitter for a Pattern 002 type with a      *)
(* restriction base and n enumeration facets returns exactly one           *)
(* rdfs:Datatype under the base and exactly n rdf:Property statements, one *)
(* per facet, labelled with the facet value and rdfs:subPropertyOf the     *)
(* datatype, also for a facet whose value is the empty string.  The code   *)
(* writes no property for an empty value.                                  *)
(***************************************************************************)
C4_OnePropertyPerFacet ==
    \A c \in 1..Len(calls) :
        LET e == calls[c].element
            out == calls[c].statements
        IN (calls[c].pattern = "Pattern 002" /\ e.restriction /\ e.base # "") =>
            /\ Len(out) = Len(e.enumeration) + 1
            /\ Cardinality(OfKind(out, "rdfs:Datatype")) = 1
            /\ \A i \in OfKind(out, "rdfs:Datatype") :
                  out[i].s = Mismo(e.name) /\ out[i].sup = <<_format_type_reference(e.base)>>
            /\ Cardinality(OfKind(out, "rdf:Property")) = Len(e.enumeration)
            /\ \A j \in 1..Len(e.enumeration) :
                  \E i \in OfKind(out, "rdf:Property") :
                      out[i].label = <<e.enumeration[j]>> /\ out[i].sup = <<Mismo(e.name)>>

(***************************************************************************)
(* C5.  After transform_xsd has completed, no type classified Pattern 003  *)
(* is declared a class in the output.  Stated for the documents whose type *)
(* names are unique, where it fails already: the Pattern 007 emitter of a  *)
(* parent declares its contained element a class whatever the pattern of   *)
(* the element's type.                                                     *)
(***************************************************************************)
C5_NoClassForWildcardType ==
    (TransformCompleted /\ UniqueNames(schema)) =>
        \A i \in 1..Len(schema) :
            find_pattern_type(schema[i]) = "Pattern 003" => ~ClassDeclared(schema[i].name)

(***************************************************************************)
(* C2.  find_pattern_type does not depend on the emission state: the       *)
(* pattern it returned when a type was transformed is the pattern it       *)
(* returns for that type in every later state, whatever has been added to  *)
(* transformed_types, ttl_statements and pending_hierarchies since, and    *)
(* two invocations on the same declaration return the same pattern.        *)
(***************************************************************************)
C2_ClassificationIndependentOfEmission ==
    /\ \A c \in 1..Len(calls) : find_pattern_type(calls[c].element) = calls[c].pattern
    /\ \A c, d \in 1..Len(calls) :
          calls[c].element = calls[d].element => calls[c].pattern = calls[d].pattern

\* a type that was classified while nothing had been emitted is classified
\* again after a collection has been emitted and its pairs recorded
C2_ClassifiedBeforeAndAfterEmission ==
    /\ Len(calls) >= 2
    /\ calls[1].pattern # "Pattern 007"
    /\ calls[2].pattern = "Pattern 007"
    /\ calls[2].element.name \in transformed_types
    /\ pending_hierarchies # << >>
    /\ Len(ttl_statements) > Len(add_prefixes)

SuperclassesIn(statements, n) ==
    UNION {Range(statements[i].sup) :
             i \in {j \in 1..Len(statements) :
                      /\ statements[j].s = Mismo(n)
                      /\ statements[j].k \in {"owl:Class", "rdfs:subClassOf"}}}

\* the types hierarchy_data records as containing an element named n or of type n
ContainmentParents(n) ==
    {hierarchy_data[i].parent :
        i \in {j \in 1..Len(hierarchy_data) :
                 \E k \in 1..Len(hierarchy_data[j].contained) :
                     \/ hierarchy_data[j].contained[k].name = n
                     \/ hierarchy_data[j].contained[k].type = n}}

\* one class declaration, first, and after the superclass triples one
\* property per attribute with a name and a type, in order
OneClassThenAttributeProperties(e, out) ==
    LET attrs == SelectSeq(e.attributes, LAMBDA a : a.name # "" /\ a.type # "")
        props == SelectSeq(out, LAMBDA st : st.k \notin {"owl:Class", "rdfs:subClassOf"})
    IN /\ Len(out) > 0
       /\ OfKind(out, "owl:Class") = {1}
       /\ out[1].s = Mismo(e.name)
       /\ \A i \in OfKind(out, "rdfs:subClassOf") : out[i].s = Mismo(e.name)
       /\ Len(props) = Len(attrs)
       /\ \A i \in 1..Len(attrs) :
             /\ props[i].k \in {"owl:DatatypeProperty", "owl:ObjectProperty"}
             /\ props[i].s = Mismo(attrs[i].name)
             /\ props[i].dom = Mismo(e.name)
             /\ props[i].rng = _format_type_reference(attrs[i].type)

C7_AttributesOnlyRootedAtThing ==
    \A c \in 1..Len(calls) :
        calls[c].pattern = "Pattern 009" =>
            /\ OneClassThenAttributeProperties(calls[c].element, calls[c].statements)
            /\ SuperclassesIn(calls[c].statements, calls[c].element.name) = {OwlThing}

(***************************************************************************)
(* C7, amended.  Every invocation of the emitter for a Pattern 009 type    *)
(* returns exactly one class declaration, for the type, whose superclasses *)
(* are the types that contain an element of that name or type, and         *)
(* owl:Thing alone when there is none, followed by exactly one property    *)
(* per attribute that has a name and a type, with the type as its domain.  *)
(***************************************************************************)
C7_AttributesOnlyUnderContainmentParents ==
    \A c \in 1..Len(calls) :
        calls[c].pattern = "Pattern 009" =>
            LET n == calls[c].element.name IN
            /\ OneClassThenAttributeProperties(calls[c].element, calls[c].statements)
            /\ SuperclassesIn(calls[c].statements, n) =
                 IF ContainmentParents(n) = {} THEN {OwlThing}
                 ELSE {Mismo(p) : p \in ContainmentParents(n)}

\* an attributes-only type that another type contains, with an attribute
\* that has no type, has been emitted
C7_ContainedAttributesOnlyEmitted ==
    \E c \in 1..Len(calls) :
        /\ calls[c].pattern = "Pattern 009"
        /\ ContainmentParents(calls[c].element.name) # {}
        /\ calls[c].element.name \notin ContainmentParents(calls[c].element.name)
        /\ \E i \in 1..Len(calls[c].element.attributes) :
              calls[c].element.attributes[i].type = ""
        /\ Len(calls[c].statements) = 3

(***************************************************************************)
(* C8.  find_pattern_type is total and the first matching check wins: a    *)
(* simpleType is Pattern 001.1 with a union, else Pattern 002 with an      *)
(* enumeration, else Pattern 001; a complexType is Pattern 003 with an     *)
(* xsd:any, else Pattern 005 as an extension, else Pattern 004 with simple *)
(* content, else Pattern 007 as a collection, else Pattern 009 with        *)
(* attributes only, else Pattern 006.  Checked for every declaration of    *)
(* the document in every state, and for every recorded invocation.         *)
(***************************************************************************)

FirstMatchWins(e, p) ==
    /\ IsSimple(e) =>
          /\ p \in {"Pattern 001.1", "Pattern 002", "Pattern 001"}
          /\ e.union # "none" => p = "Pattern 001.1"
          /\ (e.union = "none" /\ Len(e.enumeration) > 0) => p = "Pattern 002"
          /\ (e.union = "none" /\ Len(e.enumeration) = 0) => p = "Pattern 001"
    /\ IsComplex(e) =>
          /\ p \in {"Pattern 003", "Pattern 005", "Pattern 004", "Pattern 007",
                    "Pattern 009", "Pattern 006"}
          /\ e.any # NoAny => p = "Pattern 003"
          /\ (p = "Pattern 005") => (e.any = NoAny /\ isPattern005(e))
          /\ (e.any = NoAny /\ isPattern005(e)) => p = "Pattern 005"
          /\ (e.any = NoAny /\ ~isPattern005(e) /\ e.simpleContent) => p = "Pattern 004"
          /\ (e.any = NoAny /\ ~isPattern005(e) /\ ~e.simpleContent /\ is_collection_type(e))
                => p = "Pattern 007"
          /\ (/\ e.any = NoAny /\ ~isPattern005(e) /\ ~e.simpleContent
              /\ ~is_collection_type(e) /\ has_only_attributes(e))
                => p = "Pattern 009"
          /\ (/\ e.any = NoAny /\ ~isPattern005(e) /\ ~e.simpleContent
              /\ ~is_collection_type(e) /\ ~has_only_attributes(e))
                => p = "Pattern 006"

C8_FirstMatchWins ==
    /\ \A i \in 1..Len(schema) : FirstMatchWins(schema[i], find_pattern_type(schema[i]))
    /\ \A c \in 1..Len(calls) : FirstMatchWins(calls[c].element, calls[c].pattern)

\* a type with xsd:any and simple content was classified Pattern 003 and a
\* type named MESSAGE with simple content was classified Pattern 004
C8_OverlappingChecksClassified ==
    /\ \E c \in 1..Len(calls) :
          /\ calls[c].element.any # NoAny
          /\ calls[c].element.simpleContent
          /\ calls[c].pattern = "Pattern 003"
    /\ \E c \in 1..Len(calls) :
          /\ calls[c].element.name \in collection_name_indicators
          /\ calls[c].element.simpleContent
          /\ calls[c].pattern = "Pattern 004"

(***************************************************************************)
(* C9.  The process exits with 0 exactly when the input file exists,       *)
(* transform_xsd returned True and write_ttl returned True, and with 1     *)
(* otherwise; write_ttl is not called after transform_xsd returned False,  *)
(* and neither is called when the input file is missing.                   *)
(***************************************************************************)
C9_ExitCode ==
    /\ pc # "exit" => exit_code = -1
    /\ pc = "exit" =>
          /\ exit_code \in {0, 1}
          /\ exit_code = 0 <=> (/\ input_exists = "True"
                                /\ transform_xsd_result = "True"
                                /\ write_ttl_result = "True")
    /\ transform_xsd_result = "False" => write_ttl_result = "unset"
    /\ input_exists # "True" => (transform_xsd_result = "unset" /\ write_ttl_result = "unset")

\* the process has exited after write_ttl failed on a transformed document
C9_ExitedAfterWriteFailure ==
    /\ pc = "exit"
    /\ exit_code = 1
    /\ transform_xsd_result = "True"
    /\ write_ttl_result = "False"
    /\ transformed_types # {}

(***************************************************************************)
(* C10.  As stated: when transform_xsd has completed with Pattern 007      *)
(* disabled, for every document the output declares no Pattern 007 type a  *)
(* class and no class a subclass of a Pattern 007 type, no Pattern 007     *)
(* type is in transformed_types, pending_hierarchies is empty, there is no *)
(* Hierarchy Consistency block, and the emitters of the other patterns     *)
(* returned what they return with Pattern 007 enabled.  This fails: a type *)
(* contained in a collection is still emitted as a subclass of it by its   *)
(* own emitter, and in a document that declares a name twice one           *)
(* declaration can be Pattern 007 and the other one emitted.               *)
(***************************************************************************)

\* the names of the declarations classified Pattern 007
CollectionNames ==
    {schema[i].name : i \in {j \in 1..Len(schema) :
                                find_pattern_type(schema[j]) = "Pattern 007"}}

\* the statements returned by the invocations for types of other patterns
StatementsOfOtherPatterns(cl) ==
    LET others == SelectSeq(cl, LAMBDA c : c.pattern # "Pattern 007")
    IN [i \in 1..Len(others) |-> others[i].statements]

\* the output has the Hierarchy Consistency block
HasConsistencyBlock ==
    \E i \in 1..Len(ttl_statements) :
        ttl_statements[i] = CommentLine("Hierarchy Consistency")

\* what is the same in the statement and in its amended form
CollectionEmitterSilent ==
    /\ \A n \in CollectionNames : ~ClassDeclared(n) /\ n \notin transformed_types
    /\ pending_hierarchies = << >>
    /\ ~HasConsistencyBlock
    /\ StatementsOfOtherPatterns(calls)
         = StatementsOfOtherPatterns(VisitAll(schema, FALSE).calls)

C10_DisabledCollectionsLeaveNoTrace ==
    (TransformCompleted /\ disable_pattern_007) =>
        /\ CollectionEmitterSilent
        /\ \A n \in CollectionNames :
              \A i \in 1..Len(schema) :
                  ClassDeclared(schema[i].name)
                      => Mismo(n) \notin SuperclassesInOutput(schema[i].name)

(***************************************************************************)
(* C10, amended.  When transform_xsd has completed with Pattern 007        *)
(* disabled on a document in which no two declarations have the same name, *)
(* the output declares no Pattern 007 type a class and has no class        *)
(* declaration that names a Pattern 007 type as superclass in the          *)
(* declaration itself (the form the Pattern 007 emitter writes for a       *)
(* contained element), no Pattern 007 type is in transformed_types,        *)
(* pending_hierarchies is empty, there is no Hierarchy Consistency block,  *)
(* and the emitters of the other patterns returned what they return with   *)
(* Pattern 007 enabled.                                                    *)
(***************************************************************************)
C10_DisabledCollectionEmitterSilent ==
    (TransformCompleted /\ disable_pattern_007 /\ UniqueNames(schema)) =>
        /\ CollectionEmitterSilent
        /\ \A n \in CollectionNames :
              \A i \in OfKind(ttl_statements, "owl:Class") :
                  Mismo(n) \notin Range(ttl_statements[i].sup)

\* Pattern 007 is disabled and the document has a collection that has
\* hierarchy data, next to a type of another pattern that was emitted
C10_DisabledWithEmittableCollection ==
    /\ TransformCompleted
    /\ disable_pattern_007
    /\ UniqueNames(schema)
    /\ \E n \in CollectionNames : InHierarchy(n)
    /\ \E c \in 1..Len(calls) :
          calls[c].pattern \notin {"Pattern 007", "Pattern 003"}
          /\ Len(calls[c].statements) > 0

(***************************************************************************)
(* The order of the blocks of the output.                                  *)
(***************************************************************************)

\* the invocations of transform_element_new for declaration e whose result
\* was put into the statement list
BlocksOf(e) ==
    {c \in 1..Len(calls) : calls[c].element = e /\ Len(calls[c].statements) > 0}

\* the first and the last position of the block of invocation c
BlockStart(c) == calls[c].at
BlockEnd(c) == calls[c].at + Len(calls[c].statements) - 1

\* whether declaration e is a complexType named MESSAGE
IsMessage(e) == IsComplex(e) /\ e.name = "MESSAGE"

\* C11: type blocks appear in visit order, MESSAGE first and then declaration
\* order: the block of a complexType named MESSAGE precedes every other type
\* block, and for two other named types A and B, simple or complex, with A
\* declared before B, every statement of A's block precedes every statement
\* of B's block.
C11_BlocksInDeclarationOrder ==
    TransformCompleted =>
        /\ \A c, d \in 1..Len(calls) :
             /\ IsMessage(calls[c].element) /\ ~IsMessage(calls[d].element)
             /\ Len(calls[c].statements) > 0 /\ Len(calls[d].statements) > 0
             => BlockEnd(c) < BlockStart(d)
        /\ \A i, j \in 1..Len(schema) :
             /\ i < j
             /\ schema[i].name # "" /\ schema[j].name # ""
             /\ schema[i].name # schema[j].name
             /\ ~IsMessage(schema[i]) /\ ~IsMessage(schema[j])
             => \A c \in BlocksOf(schema[i]), d \in BlocksOf(schema[j]) :
                    BlockEnd(c) < BlockStart(d)

\* the positions of a comment line in the output
PositionsOf(text) ==
    {p \in 1..Len(ttl_statements) : ttl_statements[p] = CommentLine(text)}

\* where the closing blocks begin: the first heading of the class-hierarchy
\* block or of the consistency block, or the end of the output without them
ClosingBlocksStart ==
    LET headings == PositionsOf("Class Hierarchies and Containment Relationships")
                    \cup PositionsOf("Hierarchy Consistency")
    IN IF headings = {} THEN Len(ttl_statements) + 1
       ELSE CHOOSE p \in headings : \A q \in headings : p <= q

\* whether the statement at position p was written by the consistency pass
IsConsistencyStatement(p) ==
    /\ ttl_statements[p].k = "rdfs:subClassOf"
    /\ Len(ttl_statements[p].comment) > 0

\* C12: in the output of a successful run the prefix block comes first, every
\* per-type block lies after it and before the class-hierarchy and consistency
\* blocks, and the Hierarchy Consistency block, present whenever a pair was
\* recorded, is the last block: after its heading there are only statements
\* of the consistency pass.
C12_PrefixThenTypesThenClosingBlocks ==
    TransformCompleted =>
        /\ SubSeq(ttl_statements, 1, Len(add_prefixes)) = add_prefixes
        /\ \A c \in 1..Len(calls) :
             Len(calls[c].statements) > 0 =>
                /\ BlockStart(c) > Len(add_prefixes)
                /\ BlockEnd(c) < ClosingBlocksStart
                /\ SubSeq(ttl_statements, BlockStart(c), BlockEnd(c))
                     = calls[c].statements
        /\ Len(pending_hierarchies) > 0 =>
             /\ Cardinality(PositionsOf("Hierarchy Consistency")) = 1
             /\ \A p \in PositionsOf("Hierarchy Consistency") :
                  /\ \A h \in PositionsOf("Class Hierarchies and Containment Relationships") :
                        h < p
                  /\ \A q \in (p + 1)..Len(ttl_statements) :
                        ttl_statements[q] = Blank \/ IsConsistencyStatement(q)

\* a successful run that wrote two type blocks, the class-hierarchy block and
\* the consistency block
C12_AllBlocksWritten ==
    /\ TransformCompleted
    /\ Cardinality({c \in 1..Len(calls) : Len(calls[c].statements) > 0}) >= 2
    /\ PositionsOf("Class Hierarchies and Containment Relationships") # {}
    /\ PositionsOf("Hierarchy Consistency") # {}
    /\ Len(pending_hierarchies) > 0

(***************************************************************************)
(* The output and the order of the declarations.                           *)
(***************************************************************************)

\* C13: for a schema in which every type name is unique, the set of emitted
\* statements (without order, empty lines and comment lines) is the same for
\* every permutation of the type declarations.
C13_OutputIndependentOfDeclarationOrder ==
    (run_no = 2 /\ TransformCompleted /\ UniqueNames(schema)) =>
        EmittedStatements(ttl_statements) = first_run.statements

\* the second run has transformed a collection declared after its member,
\* which the first run had found declared before it
C13_ContainedDeclaredBeforeAndAfter ==
    /\ run_no = 2
    /\ TransformCompleted
    /\ UniqueNames(schema)
    /\ Len(schema) = 2
    /\ first_run.schema = <<schema[2], schema[1]>>
    /\ Len(pending_hierarchies) > 0
    /\ \E i \in 1..Len(schema[2].sequence) : schema[2].sequence[i].type = schema[1].name

(***************************************************************************)
(* The graph of an output: the triples its statements assert.              *)
(***************************************************************************)

\* the rdfs:subClassOf triples of one statement: those of a bare
\* rdfs:subClassOf statement and of a class declaration
SubClassTriplesOf(st) ==
    IF st.k \in {"rdfs:subClassOf", "owl:Class", "rdfs:Datatype"}
    THEN {<<st.s, "rdfs:subClassOf", st.sup[i]>> : i \in 1..Len(st.sup)}
    ELSE {}

\* the triples of one statement; the "# Ensure ..." line above a statement of
\* the consistency pass is a Turtle comment and asserts nothing
TriplesOf(st) ==
    IF st.k \in {"blank", "comment", "prefix"} THEN {}
    ELSE IF st.k = "rdfs:subClassOf" THEN SubClassTriplesOf(st)
    ELSE {<<st.s, "rdf:type", <<"", st.k>>>>,
          <<st.s, "rdfs:label", st.label>>,
          <<st.s, "rdfs:comment", st.comment>>,
          <<st.s, "domain", st.dom>>,
          <<st.s, "range", st.rng>>}
         \cup SubClassTriplesOf(st)
         \cup (IF st.k \in {"owl:Class", "rdfs:Datatype"} THEN {}
               ELSE {<<st.s, "sup", st.sup[i]>> : i \in 1..Len(st.sup)})

\* the graph of a statement list
Graph(statements) == UNION {TriplesOf(statements[i]) : i \in 1..Len(statements)}

\* the rdfs:subClassOf triples the Collection emitter has asserted in this run
CollectionEmitterTriples ==
    UNION {UNION {SubClassTriplesOf(calls[c].statements[i]) :
                     i \in 1..Len(calls[c].statements)} :
              c \in {d \in 1..Len(calls) : calls[d].pattern = "Pattern 007"}}

\* C14: ensure_hierarchy_consistency is idempotent with respect to the graph:
\* every rdfs:subClassOf triple it asserts was asserted by the Collection
\* emitter earlier in the same run, so the graph is the same whether the pass
\* runs zero times, once or twice.
C14_ConsistencyPassAddsNoTriple ==
    LET pass == ensure_hierarchy_consistency(pending_hierarchies) IN
    /\ pc = "consistency" =>
         /\ Graph(ttl_statements \o pass) = Graph(ttl_statements)
         /\ Graph(ttl_statements \o pass \o pass) = Graph(ttl_statements)
    /\ pc \in {"consistency", "write", "exit"} =>
         Graph(pass) \subseteq CollectionEmitterTriples

\* the pass has written its block for a collection that has a parent
C14_PassRanForCollectionWithParent ==
    /\ TransformCompleted
    /\ HasConsistencyBlock
    /\ \E i \in 1..Len(pending_hierarchies) :
          Len(_determine_collection_parents(pending_hierarchies[i][1])) > 0

(***************************************************************************)
(* The statement list over the steps of transform_xsd.                     *)
(***************************************************************************)

\* whether sequence s is the beginning of sequence t
IsPrefixOf(s, t) == Len(s) <= Len(t) /\ SubSeq(t, 1, Len(s)) = s

\* C15: the statement list is append-only throughout transform_xsd: after
\* every step the previous content of ttl_statements is an unchanged prefix of
\* the new content, and transformed_types only grows.
C15_StatementListAppendOnly ==
    [][/\ IsPrefixOf(ttl_statements, ttl_statements')
       /\ transformed_types \subseteq transformed_types']_vars

\* a run that went through every step: the prefixes, two type blocks, the
\* class-hierarchy block and the consistency block, and wrote its file
C15_EveryStepAppended ==
    /\ pc = "exit"
    /\ exit_code = 0
    /\ Cardinality(transformed_types) >= 2
    /\ PositionsOf("Class Hierarchies and Containment Relationships") # {}
    /\ HasConsistencyBlock

(***************************************************************************)
(* Imports and includes of XSDTransformer.                                 *)
(***************************************************************************)

\* C16: each import/include source is processed at most once per run: of two
\* directives of the root schema that resolve to the same normalized path the
\* second is skipped and its delegated emitter is not run again.
C16_EachImportDelegatedOnce ==
    \A i, j \in 1..Len(delegated) :
        delegated[i].path = delegated[j].path => i = j

\* C17: a failure to resolve one import is not fatal, also for xml.xsd and
\* xlinkMISMOB367.xsd: no exception leaves run because of an import, the
\* remaining directives are processed and the root schema is transformed and
\* written.
C17_ImportFailureNotFatal ==
    /\ failure # "import"
    /\ \A i \in 1..Len(delegated) :
          ~delegated[i].completed => run_pc # "raised"

(***************************************************************************)
(* What the classifier keys on.                                            *)
(***************************************************************************)

\* whether the sequence of e has an element with maxOccurs="unbounded" whose
\* type is class-like in the sense of is_collection_type
HasUnboundedClassChild(e) ==
    \E i \in 1..Len(e.sequence) :
        /\ e.sequence[i].maxOccurs = "unbounded"
        /\ HasClassChild([e EXCEPT !.sequence = <<e.sequence[i]>>])

\* whether e is a complex type that the wildcard, simple-content and extension
\* checks do not match
ReachesCollectionCheck(e) ==
    IsComplex(e) /\ ~isPattern003(e) /\ ~isPattern004(e) /\ ~isPattern005(e)

\* C18: a complex type not matched by the wildcard, extension and
\* simple-content checks is classified Collection if and only if it has a
\* child element of a class-like type with maxOccurs="unbounded" or its name
\* is in the list of collection names; with only bounded class-like children
\* and a name outside the list it is not a Collection.
C18_CollectionIffUnboundedChildOrListedName ==
    \A c \in 1..Len(calls) :
        LET e == calls[c].element IN
        ReachesCollectionCheck(e) =>
            (calls[c].pattern = "Pattern 007"
                <=> (HasUnboundedClassChild(e) \/ e.name \in collection_name_indicators))

\* whether the sequence of e is not empty and every element of it has an
\* extension-indicator type
OnlyExtensionTypedElements(e) ==
    /\ Len(e.sequence) > 0
    /\ \A i \in 1..Len(e.sequence) : _is_extension_type(e.sequence[i].type)

\* C19: a complex type without a wildcard (and, as the classifier checks
\* simple content first, without simple content) is classified ExtensionOnly
\* if and only if its name ends in EXTENSION or its sequence is not empty and
\* made only of elements of an extension-indicator type, whatever the number
\* and the names of the elements.
C19_ExtensionOnlyIffNameOrElementTypes ==
    \A c \in 1..Len(calls) :
        LET e == calls[c].element IN
        (IsComplex(e) /\ ~isPattern003(e) /\ ~isPattern004(e)) =>
            (calls[c].pattern = "Pattern 005"
                <=> (EndsWithEXTENSION(e.name) \/ OnlyExtensionTypedElements(e)))

(***************************************************************************)
(* The parents of a type.                                                  *)
(***************************************************************************)

\* the containment edges: <<parent, child element name, child type>>
ContainmentEdges ==
    UNION {{<<hierarchy_data[h].parent, hierarchy_data[h].contained[i].name,
              hierarchy_data[h].contained[i].type>> :
               i \in 1..Len(hierarchy_data[h].contained)} :
           h \in 1..Len(hierarchy_data)}

\* the parents with an edge to T by element name or by type
EdgeParents(T) == {edge[1] : edge \in {x \in ContainmentEdges : x[2] = T \/ x[3] = T}}

\* the names a lookup can be made for: the declared names and the names and
\* types of the contained elements
LookupNames ==
    {schema[i].name : i \in 1..Len(schema)}
    \cup {edge[2] : edge \in ContainmentEdges} \cup {edge[3] : edge \in ContainmentEdges}

\* whether no value occurs twice in sequence s
NoDuplicates(s) == \A i, j \in 1..Len(s) : s[i] = s[j] => i = j

\* C20: for every name T, get_parent_types(T) and
\* _determine_collection_parents(T) both return exactly the parents with a
\* containment edge whose child element name or child type is T, each parent
\* once however many of its edges match, and the two return the same set.
C20_ParentLookupsAgreeWithEdges ==
    \A T \in LookupNames :
        /\ Range(get_parent_types(T)) = EdgeParents(T)
        /\ Range(_determine_collection_parents(T)) = EdgeParents(T)
        /\ NoDuplicates(get_parent_types(T))
        /\ NoDuplicates(_determine_collection_parents(T))

\* a type was emitted whose parent has two edges to it, one of which matches by
\* the child type alone
C20_ParentWithTwoMatchingEdges ==
    /\ TransformCompleted
    /\ \E T \in transformed_types :
        /\ ClassDeclared(T)
        /\ \E a, b \in ContainmentEdges :
              /\ a # b /\ a[1] = b[1]
              /\ a[2] = T /\ a[3] = T
              /\ b[2] # T /\ b[3] = T

(***************************************************************************)
(* The superclass of a type without a containment parent.                  *)
(***************************************************************************)

\* the patterns whose emitter declares a class for the type itself
ClassProducingPatterns == {"Pattern 006", "Pattern 007", "Pattern 009"}

\* C21: a class-producing type without a containment parent has the elected
\* root container as its superclass whenever a root container can be
\* identified, and owl:Thing only when none can.
C21_ParentlessTypeUnderRootContainer ==
    TransformCompleted =>
        \A c \in 1..Len(calls) :
            LET T == calls[c].element.name IN
            (/\ calls[c].pattern \in ClassProducingPatterns
             /\ Len(calls[c].statements) > 0
             /\ ContainmentParents(T) = {}) =>
                SuperclassesIn(calls[c].statements, T)
                    = IF _find_root_container # None
                      THEN {Mismo(_find_root_container)}
                      ELSE {OwlThing}

(***************************************************************************)
(* The rdfs:subClassOf relation of the output.                             *)
(***************************************************************************)

\* the pairs <<class, superclass>> the output asserts
SubClassOfRelation ==
    UNION {{<<ttl_statements[i].s, ttl_statements[i].sup[j]>> :
               j \in 1..Len(ttl_statements[i].sup)} :
           i \in {p \in 1..Len(ttl_statements) :
                    ttl_statements[p].k \in {"owl:Class", "rdfs:subClassOf"}}}

RECURSIVE ReachableFrom(_, _, _)
\* the nodes reached from the set S over the pairs R in at most k more steps
ReachableFrom(R, S, k) ==
    IF k = 0 THEN S
    ELSE ReachableFrom(R, S \cup {x[2] : x \in {y \in R : y[1] \in S}}, k - 1)

\* whether no node of R reaches itself
Acyclic(R) ==
    \A n \in {x[1] : x \in R} :
        n \notin ReachableFrom(R, {x[2] : x \in {y \in R : y[1] = n}}, Cardinality(R))

\* C22: the rdfs:subClassOf relation among the named classes of the output is
\* a DAG for every schema: no class is a subclass of itself and there is no
\* cycle, also when a type contains an element of its own type or name.
C22_SubClassOfIsDag ==
    TransformCompleted => Acyclic(SubClassOfRelation)

\* C23: each class is the subject of at most one "a owl:Class" declaration of
\* the output; a type that is contained in a Collection and emitted by its
\* own emitter is not declared twice.
C23_OneClassDeclarationPerClass ==
    TransformCompleted =>
        \A i, j \in OfKind(ttl_statements, "owl:Class") :
            ttl_statements[i].s = ttl_statements[j].s => i = j

(***************************************************************************)
(* The kind of a property and its range.                                   *)
(***************************************************************************)

\* whether the last Len(items) statements of out are the properties of the
\* items, each an object property if and only if the declared type of its
\* item is a class-like type of the registry
PropertyKindsByRange(out, items) ==
    /\ Len(out) >= Len(items)
    /\ \A i \in 1..Len(items) :
          out[Len(out) - Len(items) + i].k =
              IF IsOwlClassType(items[i].type) THEN "owl:ObjectProperty"
              ELSE "owl:DatatypeProperty"

\* C24: the kind of every emitted element or attribute property is decided by
\* its range: for each sequence element and attribute of an
\* ElementsAndAttributes type and each attribute of a
\* SimpleContentWithAttributes type the property is an owl:ObjectProperty if
\* and only if its declared type is a class-like type of the registry.
C24_PropertyKindDecidedByRange ==
    \A c \in 1..Len(calls) :
        LET e == calls[c].element
            out == calls[c].statements
        IN Len(out) > 0 =>
            /\ calls[c].pattern = "Pattern 006" =>
                 PropertyKindsByRange(out, NamedTypedElements(e) \o NamedTypedAttributes(e))
            /\ calls[c].pattern = "Pattern 004" =>
                 PropertyKindsByRange(out, NamedTypedAttributes(e))

(***************************************************************************)
(* Bounded references inside a collection.                                 *)
(***************************************************************************)

\* the contained entries of collection n that refer to a class-like type with
\* a multiplicity other than unbounded
BoundedClassReferences(n) ==
    {i \in 1..Len(ContainedOf(n)) :
        /\ ContainedOf(n)[i].max_occurs # "unbounded"
        /\ IsOwlClassType(ContainedOf(n)[i].type)
        /\ ~(ContainedOf(n)[i].name = "EXTENSION"
             /\ EndsWithUnderscoreEXTENSION(ContainedOf(n)[i].type))}

\* C25: in the Collection emitter a contained reference to a class-like type
\* whose multiplicity is not unbounded produces neither a contained-element
\* class nor a contains-X property: it is an ordinary datatype property with
\* domain = the collection, and no pair is recorded for the consistency pass.
C25_BoundedReferenceIsDatatypeProperty ==
    \A c \in 1..Len(calls) :
        LET n == calls[c].element.name
            out == calls[c].statements
        IN (calls[c].pattern = "Pattern 007" /\ Len(out) > 0) =>
            \A i \in BoundedClassReferences(n) :
                LET x == ContainedOf(n)[i].name IN
                /\ ~\E p \in 1..Len(out) :
                       /\ out[p].k = "owl:Class" /\ out[p].s = Mismo(x)
                       /\ out[p].sup = <<Mismo(n)>>
                /\ ~\E p \in 1..Len(out) : out[p].s = <<"mismo:contains", x>>
                /\ \E p \in 1..Len(out) :
                       /\ out[p].k = "owl:DatatypeProperty" /\ out[p].s = Mismo(x)
                       /\ out[p].dom = Mismo(n)
                /\ \A p \in 1..Len(pending_hierarchies) :
                       pending_hierarchies[p] # <<n, x>>

(***************************************************************************)
(* The literal of a comment.                                               *)
(***************************************************************************)

\* whether text is s between one pair of quotes
IsQuotedLine(text, s) == text = <<Quote>> \o s \o <<Quote>>

\* whether text is s in the triple-quoted block form
IsQuotedBlock(text, s) ==
    text = <<Quote, Quote, Quote, Newline>> \o s \o <<Newline, Quote, Quote, Quote>>

\* whether every quote of s has a backslash before it
QuotesEscaped(s) ==
    \A i \in 1..Len(s) : s[i] = Quote => (i > 1 /\ s[i - 1] = Backslash)

\* C26: for every comment, None, the empty string and whitespace-only text
\* included, _format_comment_for_ttl returns a quoted literal in which every
\* quote of the stripped text has a backslash before it, in the block form
\* exactly when the stripped text has a newline and in the one-line form
\* otherwise.
C26_CommentIsQuotedLiteral ==
    formatted.returned =>
        LET stripped == IF comment_arg.is_none THEN << >> ELSE strip(comment_arg.text) IN
        \E body \in {EscapeQuotes(stripped)} :
            /\ QuotesEscaped(body)
            /\ IF Newline \in Range(stripped)
               THEN IsQuotedBlock(formatted.text, body)
               ELSE IsQuotedLine(formatted.text, body)

(***************************************************************************)
(* The datatype of a simple type.                                          *)
(***************************************************************************)

\* the named simple types of the document
NamedSimpleTypes == {i \in 1..Len(schema) : schema[i].tag = "simpleType" /\ schema[i].name # ""}

\* the positions of the rdfs:Datatype declarations of name n in the output
DatatypeDeclarations(n) ==
    {p \in OfKind(ttl_statements, "rdfs:Datatype") : ttl_statements[p].s = Mismo(n)}

\* C27: every named simple type of the document, a restriction with or without
\* base, a union with or without memberTypes, an enumeration, has exactly one
\* rdfs:Datatype declaration for its name in the output, subordinate to its
\* restriction base when it has one, and its name is in transformed_types.
C27_SimpleTypeDeclaredOnce ==
    TransformCompleted =>
        \A i \in NamedSimpleTypes :
            /\ Cardinality(DatatypeDeclarations(schema[i].name)) = 1
            /\ schema[i].name \in transformed_types

(***************************************************************************)
(* The pairs of establish_class_hierarchies.                               *)
(***************************************************************************)

\* the pairs <<collection, element>> of the min-cardinality restrictions of
\* the output; only establish_class_hierarchies writes them, one per
\* contains-X property it writes
RestrictionPairs ==
    {<<ttl_statements[p].s[2], ttl_statements[p].sup[1][2]>> :
        p \in OfKind(ttl_statements, "restriction")}

\* whether some declaration named n is classified as a Collection
ClassifiedCollection(n) ==
    \E i \in 1..Len(schema) : schema[i].name = n /\ find_pattern_type(schema[i]) = "Pattern 007"

\* C28: every contains-X property and min-cardinality restriction written by
\* establish_class_hierarchies relates a type classified as a Collection to a
\* type it contains by a containment edge; none is written for two types
\* that only have the names N+"S" and N.
C28_HierarchyPairsAreContainments ==
    \A pair \in RestrictionPairs :
        /\ ClassifiedCollection(pair[1])
        /\ \E edge \in ContainmentEdges :
               edge[1] = pair[1] /\ (edge[2] = pair[2] \/ edge[3] = pair[2])

(***************************************************************************)
(* The types transform_xsd passes to transform_element_new.                *)
(***************************************************************************)

\* whether declaration d was passed to transform_element_new
PassedToEmitter(d) == \E c \in Range(calls) : c.element = d

\* the names whose emitter returned at least one statement
NamesWithStatements == {c.element.name : c \in {x \in Range(calls) : Len(x.statements) > 0}}

\* C29: when transform_xsd has returned, every named simple and complex type
\* of the document, a MESSAGE without child nodes and each of several types
\* named MESSAGE included, was passed to transform_element_new unless a type
\* of the same name is in transformed_types, and transformed_types holds
\* exactly the names whose emitter returned at least one statement.
C29_EveryNamedTypeIsTransformed ==
    TransformCompleted =>
        /\ \A i \in 1..Len(schema) :
               (schema[i].name # "" /\ ~StartsWithXsd(schema[i].name)) =>
                   (PassedToEmitter(schema[i]) \/ schema[i].name \in transformed_types)
        /\ transformed_types = NamesWithStatements

(***************************************************************************)
(* The order of the steps of upload.                                       *)
(***************************************************************************)

\* the positions of the transfers in the log
TransferSteps == {i \in 1..Len(upload_log) : upload_log[i].step \in TransferMethods}

\* the positions of the verifications in the log
VerifySteps == {i \in 1..Len(upload_log) : upload_log[i].step = "verify"}

\* C30: upload attempts a transfer only after the file-exists check, the
\* container check and the readiness wait have succeeded, in that order, and
\* never for an unknown method; it verifies only after a successful transfer
\* with verify set; and whatever the verification gives, the value returned
\* is the success of the transfer (False when there was none).
C30_UploadStepsInOrder ==
    /\ \A i \in TransferSteps :
           /\ i = 4
           /\ SubSeq(upload_log, 1, 3)
                  = <<Step("exists", TRUE), Step("running", TRUE), Step("wait", TRUE)>>
           /\ upload_log[i].step = upload_args.method
    /\ upload_args.method \notin TransferMethods => TransferSteps = {}
    /\ \A i \in VerifySteps :
           /\ i - 1 \in TransferSteps
           /\ upload_log[i - 1].ok
           /\ upload_args.verify
    /\ upload_pc = "done" =>
           upload_result = (IF \E i \in TransferSteps : upload_log[i].ok
                            THEN "True" ELSE "False")

\* a transfer that succeeded, a verification that gave no count, True returned
C30_Witness ==
    /\ upload_pc = "done"
    /\ upload_result = "True"
    /\ \E i \in VerifySteps : ~upload_log[i].ok

====
